---- MODULE Spec2Model ----
(***************************************************************************)
(* A model of the ResumeAgent core of AllDone: section segmentation        *)
(* (ResumeLoader.py), job analysis and skill matching                      *)
(* (JobDecriptionAnalyzer.py) and resume rewriting (RewriteResume.py).     *)
(*                                                                         *)
(* Python strings are sequences of one-character strings, so that lower(), *)
(* strip(), splitlines() and the `in` substring test are computed as       *)
(* Python computes them.  Each component has its own specification; the    *)
(* variables of the other components stay at their idle value.             *)
(***************************************************************************)
EXTENDS Naturals, Sequences, FiniteSets, TLC

VARIABLES
    \* JobDescriptionAnalyzer.match_resume_to_job
    resume_data, job_analysis, match_result, match_pc,
    \* ResumeLoader.split_into_sections, normalize_sections
    resume_text, lines, line_no, current_section, sections, normalized, seg_pc,
    \* JobDescriptionAnalyzer.analyze_jobs
    llm, jobs, extracted_jobs, idx, analyzed_jobs, llm_log, analyze_pc,
    \* RewriteResume.rewrite_resume_data
    rw_resume, rw_job, llm_client, rewritten, rewritten_experience, new_bullets,
    role_no, bullet_no, rw_log, rw_pc,
    \* BuildResume.analyze_job
    analyzer, job_description, llm_response, single_result, single_pc,
    \* BuildResume.customize_for_job
    heap, stored, loaded, cust_client, customized, cust_calls, cust_pc,
    \* BuildResume.load_resume_from_pdf
    pdf_path, pdf_file, extraction, load_outcome, builder_resume_data, load_pc,
    \* BuildResume: analyze_job, match_resume_to_job, customize_for_job for one job
    pipe_heap, pipe_response, pipe_analysis, pipe_match, pipe_out, pipe_rewrite, pipe_pc,
    \* BuildResume: any sequence of calls on one builder
    session_resume_data, session_llm, session_call, session_result, session_docx,
    session_loaded, session_failed, session_calls

match_vars == <<resume_data, job_analysis, match_result, match_pc>>
seg_vars == <<resume_text, lines, line_no, current_section, sections, normalized, seg_pc>>
analyze_vars == <<llm, jobs, extracted_jobs, idx, analyzed_jobs, llm_log, analyze_pc>>
rewrite_vars == <<rw_resume, rw_job, llm_client, rewritten, rewritten_experience, new_bullets,
                  role_no, bullet_no, rw_log, rw_pc>>
single_vars == <<analyzer, job_description, llm_response, single_result, single_pc>>
customize_vars == <<heap, stored, loaded, cust_client, customized, cust_calls, cust_pc>>
load_vars == <<pdf_path, pdf_file, extraction, load_outcome, builder_resume_data, load_pc>>
pipeline_vars ==
    <<pipe_heap, pipe_response, pipe_analysis, pipe_match, pipe_out, pipe_rewrite, pipe_pc>>
session_vars ==
    <<session_resume_data, session_llm, session_call, session_result, session_docx,
      session_loaded, session_failed, session_calls>>
vars == <<match_vars, seg_vars, analyze_vars, rewrite_vars, single_vars, customize_vars, load_vars,
          pipeline_vars, session_vars>>

\* What an action of one component leaves alone: the other components' variables.
MatchOnly ==
    UNCHANGED <<seg_vars, analyze_vars, rewrite_vars, single_vars, customize_vars, load_vars,
                pipeline_vars, session_vars>>
SegmentOnly ==
    UNCHANGED <<match_vars, analyze_vars, rewrite_vars, single_vars, customize_vars, load_vars,
                pipeline_vars, session_vars>>
AnalyzeOnly ==
    UNCHANGED <<match_vars, seg_vars, rewrite_vars, single_vars, customize_vars, load_vars,
                pipeline_vars, session_vars>>
RewriteOnly ==
    UNCHANGED <<match_vars, seg_vars, analyze_vars, single_vars, customize_vars, load_vars,
                pipeline_vars, session_vars>>
SingleOnly ==
    UNCHANGED <<match_vars, seg_vars, analyze_vars, rewrite_vars, customize_vars, load_vars,
                pipeline_vars, session_vars>>
CustomizeOnly ==
    UNCHANGED <<match_vars, seg_vars, analyze_vars, rewrite_vars, single_vars, load_vars,
                pipeline_vars, session_vars>>
LoadOnly ==
    UNCHANGED <<match_vars, seg_vars, analyze_vars, rewrite_vars, single_vars, customize_vars,
                pipeline_vars, session_vars>>
PipelineOnly ==
    UNCHANGED <<match_vars, seg_vars, analyze_vars, rewrite_vars, single_vars, customize_vars,
                load_vars, session_vars>>
SessionOnly ==
    UNCHANGED <<match_vars, seg_vars, analyze_vars, rewrite_vars, single_vars, customize_vars,
                load_vars, pipeline_vars>>

\* The value of a component's variables while another component runs.
Idle == "idle"
MatchIdle == resume_data = Idle /\ job_analysis = Idle /\ match_result = Idle /\ match_pc = Idle
SegmentIdle ==
    /\ resume_text = Idle /\ lines = Idle /\ line_no = Idle /\ current_section = Idle
    /\ sections = Idle /\ normalized = Idle /\ seg_pc = Idle
AnalyzeIdle ==
    /\ llm = Idle /\ jobs = Idle /\ extracted_jobs = Idle /\ idx = Idle
    /\ analyzed_jobs = Idle /\ llm_log = Idle /\ analyze_pc = Idle
RewriteIdle ==
    /\ rw_resume = Idle /\ rw_job = Idle /\ llm_client = Idle /\ rewritten = Idle
    /\ rewritten_experience = Idle /\ new_bullets = Idle /\ role_no = Idle
    /\ bullet_no = Idle /\ rw_log = Idle /\ rw_pc = Idle
SingleIdle ==
    /\ analyzer = Idle /\ job_description = Idle /\ llm_response = Idle
    /\ single_result = Idle /\ single_pc = Idle
CustomizeIdle ==
    /\ heap = Idle /\ stored = Idle /\ loaded = Idle /\ cust_client = Idle
    /\ customized = Idle /\ cust_calls = Idle /\ cust_pc = Idle
LoadIdle ==
    /\ pdf_path = Idle /\ pdf_file = Idle /\ extraction = Idle /\ load_outcome = Idle
    /\ builder_resume_data = Idle /\ load_pc = Idle
PipelineIdle ==
    /\ pipe_heap = Idle /\ pipe_response = Idle /\ pipe_analysis = Idle /\ pipe_match = Idle
    /\ pipe_out = Idle /\ pipe_rewrite = Idle /\ pipe_pc = Idle
SessionIdle ==
    /\ session_resume_data = Idle /\ session_llm = Idle /\ session_call = Idle
    /\ session_result = Idle /\ session_docx = Idle /\ session_loaded = Idle
    /\ session_failed = Idle /\ session_calls = Idle

\* Python values are records tagged with their type; None is the value of NoneType.
None == [type |-> "NoneType"]

(***************************************************************************)
(* Python string primitives                                                *)
(***************************************************************************)

UpperChars == <<"A","B","C","D","E","F","G","H","I","J","K","L","M",
                "N","O","P","Q","R","S","T","U","V","W","X","Y","Z">>
LowerChars == <<"a","b","c","d","e","f","g","h","i","j","k","l","m",
                "n","o","p","q","r","s","t","u","v","w","x","y","z">>

\* The lowercase letter of each uppercase letter.
LowerMap ==
    [c \in {UpperChars[i] : i \in DOMAIN UpperChars} |->
        LowerChars[CHOOSE i \in DOMAIN UpperChars : UpperChars[i] = c]]

\* str.lower() on one character.
LowerChar(c) == IF c \in DOMAIN LowerMap THEN LowerMap[c] ELSE c

\* str.lower()
lower(s) == [i \in DOMAIN s |-> LowerChar(s[i])]

\* The characters str.strip() removes when called without an argument.
Whitespace == {" ", "\t", "\n", "\r"}

\* str.strip(chars): drop the leading and the trailing characters that are in chars.
strip_chars(s, chars) ==
    LET keep == {i \in DOMAIN s : s[i] \notin chars}
    IN  IF keep = {} THEN <<>>
        ELSE LET first == CHOOSE i \in keep : \A j \in keep : i <= j
                 last  == CHOOSE i \in keep : \A j \in keep : j <= i
             IN  SubSeq(s, first, last)

\* str.strip()
strip(s) == strip_chars(s, Whitespace)

\* Truthiness of a Python string: the empty string is falsy.
Truthy(s) == Len(s) > 0

\* The set of elements of a sequence.
Range(seq) == {seq[i] : i \in DOMAIN seq}

\* All sequences over S of length at most n.
SeqsUpTo(S, n) == UNION {[1..k -> S] : k \in 0..n}


(***************************************************************************)
(* JobDescriptionAnalyzer.match_resume_to_job                              *)
(***************************************************************************)

\* A Python list of strings, a string, and a dict given by its values().
PyList(items) == [type |-> "list", items |-> items]
PyStr(s) == [type |-> "str", s |-> s]
PyDict(values) == [type |-> "dict", values |-> values]

\* A comparison that forgets lower(): skill.strip()
NormSkill_CaseSensitive(skill) == strip(skill)

\* skill.lower().strip()
NormSkill(skill) == strip(lower(skill))

\* {skill.lower().strip() for skill in skills if skill}
SkillSet(skills) == {NormSkill(skills[i]) : i \in {k \in DOMAIN skills : Truthy(skills[k])}}

\* category if isinstance(category, list) else [category]
CategorySkills(category) ==
    IF category.type = "list" THEN category.items ELSE <<category.s>>

\* The set resume_skills built from resume_data.get("skills", []).
ResumeSkills(skills_data) ==
    IF skills_data.type = "list" THEN SkillSet(skills_data.items)
    ELSE IF skills_data.type = "dict"
    THEN UNION {SkillSet(CategorySkills(skills_data.values[i])) : i \in DOMAIN skills_data.values}
    ELSE {}

\* A report that suggests the missing skills for addition.
MatchReport_SuggestGaps(resume, job) ==
    LET resume_skills    == ResumeSkills(resume.skills)
        required_skills  == SkillSet(job.required_skills)
        preferred_skills == SkillSet(job.preferred_skills)
        matched_required  == resume_skills \cap required_skills
        missing_required  == required_skills \ resume_skills
        matched_preferred == resume_skills \cap preferred_skills
    IN  [type |-> "dict",
         matched_required_skills  |-> matched_required,
         missing_required_skills  |-> missing_required,
         matched_preferred_skills |-> matched_preferred,
         emphasize_skills         |-> matched_required \cup matched_preferred,
         resume_gaps              |-> missing_required,
         safe_to_add              |-> IF missing_required = {} THEN <<>>
                                      ELSE <<CHOOSE m \in missing_required : TRUE>>]

\* A report that leaves the matched preferred skills out of emphasize_skills.
MatchReport_EmphasizeRequired(resume, job) ==
    LET resume_skills    == ResumeSkills(resume.skills)
        required_skills  == SkillSet(job.required_skills)
        preferred_skills == SkillSet(job.preferred_skills)
        matched_required  == resume_skills \cap required_skills
        missing_required  == required_skills \ resume_skills
        matched_preferred == resume_skills \cap preferred_skills
    IN  [type |-> "dict",
         matched_required_skills  |-> matched_required,
         missing_required_skills  |-> missing_required,
         matched_preferred_skills |-> matched_preferred,
         emphasize_skills         |-> matched_required,
         resume_gaps              |-> missing_required,
         safe_to_add              |-> <<>>]

\* A report that counts every required skill as matched.
MatchReport_AllRequiredMatched(resume, job) ==
    LET resume_skills    == ResumeSkills(resume.skills)
        required_skills  == SkillSet(job.required_skills)
        preferred_skills == SkillSet(job.preferred_skills)
        matched_required  == required_skills
        missing_required  == required_skills \ resume_skills
        matched_preferred == resume_skills \cap preferred_skills
    IN  [type |-> "dict",
         matched_required_skills  |-> matched_required,
         missing_required_skills  |-> missing_required,
         matched_preferred_skills |-> matched_preferred,
         emphasize_skills         |-> matched_required \cup matched_preferred,
         resume_gaps              |-> missing_required,
         safe_to_add              |-> <<>>]

\* The dict match_resume_to_job returns for a job analysis that is not None.
\* list(<set>) yields the set's elements in an order Python leaves open, so the
\* five skill fields are kept as the sets of their elements; safe_to_add is the
\* list literal [].
MatchReport(resume, job) ==
    LET resume_skills    == ResumeSkills(resume.skills)
        required_skills  == SkillSet(job.required_skills)
        preferred_skills == SkillSet(job.preferred_skills)
        matched_required  == resume_skills \cap required_skills
        missing_required  == required_skills \ resume_skills
        matched_preferred == resume_skills \cap preferred_skills
    IN  [type |-> "dict",
         matched_required_skills  |-> matched_required,
         missing_required_skills  |-> missing_required,
         matched_preferred_skills |-> matched_preferred,
         emphasize_skills         |-> matched_required \cup matched_preferred,
         resume_gaps              |-> missing_required,
         safe_to_add              |-> <<>>]

\* match_resume_to_job(resume_data, job_analysis)
MatchResumeToJobResult(resume, job) ==
    IF job = None THEN None ELSE MatchReport(resume, job)

\* ---- inputs ----

MaxSkills == 2
MaxPreferred == 1

\* Skill strings: "", " ", "Go ", "go", " c".
SkillStrings == {<<>>, <<" ">>, <<"G","o"," ">>, <<"g","o">>, <<" ","c">>}

\* The shapes resume_data["skills"] takes for the skills of the list L: a flat
\* list, a mapping with one list category, a mapping of scalar categories, a
\* mapping mixing both, and (for no skills) a value that is neither.
SkillsShapes(L) ==
    {PyList(L), PyDict(<<PyList(L)>>), PyDict([i \in DOMAIN L |-> PyStr(L[i])])}
    \cup (IF Len(L) >= 1 THEN {PyDict(<<PyStr(Head(L)), PyList(Tail(L))>>)} ELSE {None})

ResumeInputs ==
    {[skills |-> sh] : sh \in UNION {SkillsShapes(L) : L \in SeqsUpTo(SkillStrings, MaxSkills)}}

JobInputs ==
    {None} \cup
    {[type |-> "dict", required_skills |-> r, preferred_skills |-> p] :
        r \in SeqsUpTo(SkillStrings, MaxSkills), p \in SeqsUpTo(SkillStrings, MaxPreferred)}

\* No call has returned yet.
NoResult == [type |-> "unset"]

MatchInit ==
    /\ resume_data \in ResumeInputs
    /\ job_analysis \in JobInputs
    /\ match_result = NoResult
    /\ match_pc = "call"

match_resume_to_job ==
    /\ match_pc = "call"
    /\ match_result' = MatchResumeToJobResult(resume_data, job_analysis)
    /\ match_pc' = "returned"
    /\ UNCHANGED <<resume_data, job_analysis>>
    /\ MatchOnly

MatchNext == match_resume_to_job

\* A call of match_resume_to_job on any resume and any job analysis.
InitMatch ==
    /\ MatchInit /\ SegmentIdle /\ AnalyzeIdle /\ RewriteIdle /\ SingleIdle /\ CustomizeIdle
    /\ LoadIdle /\ PipelineIdle /\ SessionIdle

SpecMatch == InitMatch /\ [][MatchNext]_vars


\* ---- claims about match_resume_to_job ----

\* The call has returned a match report (a dict).
ReportReturned == match_pc = "returned" /\ match_result.type = "dict"

\* The normalization rule as the specification words it: lowercase, trim, then
\* drop the empty entries.
NormalizedSkills(skills) == {strip(lower(skills[i])) : i \in DOMAIN skills} \ {<<>>}

\* The non-empty skill strings a resume's skills value holds, whatever its shape.
SkillEntries(skills_data) ==
    IF skills_data.type = "list" THEN {e \in Range(skills_data.items) : e # <<>>}
    ELSE IF skills_data.type = "dict"
    THEN {e \in UNION {IF skills_data.values[i].type = "list"
                       THEN Range(skills_data.values[i].items)
                       ELSE {skills_data.values[i].s} : i \in DOMAIN skills_data.values} : e # <<>>}
    ELSE {}

\* C1 as stated: every call of match_resume_to_job, whatever resume_data and
\* job_analysis it is given, ends with a match report whose safe_to_add is the
\* empty sequence.
C1_EveryCallReportsEmptySafeToAdd ==
    match_pc = "returned" => (match_result.type = "dict" /\ match_result.safe_to_add = <<>>)

\* C1 amended: a call with a job_analysis that is not None ends with a match
\* report whose safe_to_add is the empty sequence; a call with job_analysis None
\* returns None, no report.
C1_SafeToAddEmpty ==
    match_pc = "returned" =>
        IF job_analysis = None
        THEN match_result = None
        ELSE match_result.type = "dict" /\ match_result.safe_to_add = <<>>

\* C1 witness: a report was returned for a job with required skills the resume
\* lacks (the skills one could be tempted to suggest).
C1_Witness ==
    /\ ReportReturned
    /\ match_result.missing_required_skills # {}
    /\ match_result.matched_required_skills # {}

\* C3 as stated: in every report, matched_required_skills and
\* missing_required_skills together are, as a set, the normalized (lowercased,
\* trimmed, empty entries dropped) required_skills of the job.
C3_ReconstructsRequired ==
    ReportReturned =>
        match_result.matched_required_skills \cup match_result.missing_required_skills
            = NormalizedSkills(job_analysis.required_skills)

\* The resume has no skills: an empty list or an empty category mapping.
ResumeHasNoSkills ==
    resume_data.skills \in {PyList(<<>>), PyDict(<<>>)}

\* C8 as stated: for a resume without skills, missing_required_skills is, as a
\* set, the normalized and de-duplicated required_skills, and
\* matched_required_skills, matched_preferred_skills and emphasize_skills are empty.
C8_NoSkillsAllMissing ==
    (ReportReturned /\ ResumeHasNoSkills) =>
        /\ match_result.missing_required_skills = NormalizedSkills(job_analysis.required_skills)
        /\ match_result.matched_required_skills = {}
        /\ match_result.matched_preferred_skills = {}
        /\ match_result.emphasize_skills = {}

\* The lowercased, trimmed forms shared by a resume skill and one of the job's skills.
SharedForms(skills_data, job_skills) ==
    {strip(lower(r)) : r \in {e \in SkillEntries(skills_data) :
        \E j \in Range(job_skills) : j # <<>> /\ strip(lower(j)) = strip(lower(e))}}

\* C9: a (non-empty) resume skill and a (non-empty) job skill are matched exactly
\* when their lowercased, trimmed forms are equal, for required and for preferred
\* skills, whether the resume's skills are a flat list or a category mapping whose
\* values are lists or single strings.
C9_CaseAndWhitespaceInsensitive ==
    ReportReturned =>
        /\ match_result.matched_required_skills
               = SharedForms(resume_data.skills, job_analysis.required_skills)
        /\ match_result.matched_preferred_skills
               = SharedForms(resume_data.skills, job_analysis.preferred_skills)

\* C9 witness: the resume holds "Go " as a scalar category value, the job
\* requires "go", and the report matches them.
C9_Witness ==
    /\ ReportReturned
    /\ resume_data.skills.type = "dict"
    /\ \E i \in DOMAIN resume_data.skills.values :
           resume_data.skills.values[i] = PyStr(<<"G","o"," ">>)
    /\ job_analysis.required_skills = << <<"g","o">> >>
    /\ <<"g","o">> \in match_result.matched_required_skills


(***************************************************************************)
(* ResumeLoader.split_into_sections and normalize_sections                 *)
(***************************************************************************)

\* The line boundaries str.splitlines() splits at ("\r\n" counts as one).
LineBreaks == {"\n", "\r"}

\* str.splitlines(): the lines of s without their line breaks; a trailing line
\* break opens no further line.
splitlines(s) ==
    LET \* where a line break starts, and where the break starting at i ends
        starts == {i \in DOMAIN s :
                      /\ s[i] \in LineBreaks
                      /\ ~(s[i] = "\n" /\ i > 1 /\ s[i - 1] = "\r")}
        EndOf(i) == IF s[i] = "\r" /\ i < Len(s) /\ s[i + 1] = "\n" THEN i + 1 ELSE i
        n == Cardinality(starts)
        start[k \in 1..n] == CHOOSE i \in starts : Cardinality({j \in starts : j < i}) = k - 1
        From(k) == IF k = 1 THEN 1 ELSE EndOf(start[k - 1]) + 1
        broken == [k \in 1..n |-> SubSeq(s, From(k), start[k] - 1)]
    IN  IF From(n + 1) <= Len(s)
        THEN Append(broken, SubSeq(s, From(n + 1), Len(s)))
        ELSE broken

\* pattern in s
Contains(pattern, s) ==
    \E i \in 0..(Len(s) - Len(pattern)) : \A j \in DOMAIN pattern : s[i + j] = pattern[j]

\* The keys of the sections dict, in insertion order.
SectionOrder == <<"summary", "skills", "experience", "projects", "education">>
SectionNames == Range(SectionOrder)

\* section_patterns (lines 125-131).
section_patterns ==
    [
     summary |-> <<
         <<"s","u","m","m","a","r","y">>,
         <<"p","r","o","f","e","s","s","i","o","n","a","l"," ","s","u","m","m","a","r","y">>,
         <<"o","b","j","e","c","t","i","v","e">>,
         <<"p","r","o","f","i","l","e">>,
         <<"a","b","o","u","t">>>>,
     skills |-> <<
         <<"s","k","i","l","l","s">>,
         <<"t","e","c","h","n","i","c","a","l"," ","s","k","i","l","l","s">>,
         <<"c","o","r","e"," ","c","o","m","p","e","t","e","n","c","i","e","s">>,
         <<"c","o","m","p","e","t","e","n","c","i","e","s">>,
         <<"e","x","p","e","r","t","i","s","e">>>>,
     experience |-> <<
         <<"e","x","p","e","r","i","e","n","c","e">>,
         <<"w","o","r","k"," ","e","x","p","e","r","i","e","n","c","e">>,
         <<"e","m","p","l","o","y","m","e","n","t">>,
         <<"w","o","r","k"," ","h","i","s","t","o","r","y">>,
         <<"p","r","o","f","e","s","s","i","o","n","a","l"," ","e","x","p","e","r","i","e","n","c","e">>>>,
     projects |-> <<
         <<"p","r","o","j","e","c","t","s">>,
         <<"p","r","o","j","e","c","t"," ","e","x","p","e","r","i","e","n","c","e">>,
         <<"k","e","y"," ","p","r","o","j","e","c","t","s">>,
         <<"n","o","t","a","b","l","e"," ","p","r","o","j","e","c","t","s">>>>,
     education |-> <<
         <<"e","d","u","c","a","t","i","o","n">>,
         <<"a","c","a","d","e","m","i","c"," ","b","a","c","k","g","r","o","u","n","d">>,
         <<"q","u","a","l","i","f","i","c","a","t","i","o","n","s">>,
         <<"a","c","a","d","e","m","i","c"," ","q","u","a","l","i","f","i","c","a","t","i","o","n","s">>>>]

\* len(line.strip()) < 50
HeaderLengthLimit == 50

\* current_section = None / found_section = None
NoSection == "None"

\* A check that takes a line of any length for a header.
MatchesSection_AnyLength(section_name, line, line_clean) ==
    \E k \in DOMAIN section_patterns[section_name] :
        Contains(section_patterns[section_name][k], line_clean)

\* The check of one section's patterns against a line (lines 142-146), for
\* line_clean = line.strip().lower().
MatchesSection(section_name, line, line_clean) ==
    /\ \E k \in DOMAIN section_patterns[section_name] :
           Contains(section_patterns[section_name][k], line_clean)
    /\ Len(strip(line)) < HeaderLengthLimit

\* A search that keeps the last section whose patterns match.
FoundSection_LastMatch(line) ==
    LET line_clean == lower(strip(line))
        hits == {n \in DOMAIN SectionOrder : MatchesSection(SectionOrder[n], line, line_clean)}
    IN  IF hits = {} THEN NoSection
        ELSE SectionOrder[CHOOSE n \in hits : \A m \in hits : m <= n]

\* found_section for a line: the first section, in the dict's order, whose
\* patterns match; None when no section matches.
FoundSection(line) ==
    LET line_clean == lower(strip(line))
        hits == {n \in DOMAIN SectionOrder : MatchesSection(SectionOrder[n], line, line_clean)}
    IN  IF hits = {} THEN NoSection
        ELSE SectionOrder[CHOOSE n \in hits : \A m \in hits : n <= m]

\* A loop body that switches the section and keeps the header line as content.
SplitLine_KeepHeader(cur, secs, line) ==
    LET found_section == FoundSection(line)
        target == IF found_section # NoSection THEN found_section ELSE cur
    IN  IF target # NoSection
        THEN [current_section |-> target,
              sections |-> [secs EXCEPT ![target] = @ \o line \o <<"\n">>]]
        ELSE [current_section |-> cur, sections |-> secs]

\* A loop body that files the lines before the first header under summary.
SplitLine_DefaultSummary(cur, secs, line) ==
    LET found_section == FoundSection(line)
    IN  IF found_section # NoSection
        THEN [current_section |-> found_section, sections |-> secs]
        ELSE LET target == IF cur # NoSection THEN cur ELSE "summary"
             IN  [current_section |-> cur,
                  sections |-> [secs EXCEPT ![target] = @ \o line \o <<"\n">>]]

\* One iteration of the loop over the lines (lines 136-154): a header switches
\* the current section and is skipped; any other line is appended, with a line
\* break, to the current section if there is one.
SplitLine(cur, secs, line) ==
    LET found_section == FoundSection(line)
    IN  IF found_section # NoSection
        THEN [current_section |-> found_section, sections |-> secs]
        ELSE IF cur # NoSection
        THEN [current_section |-> cur,
              sections |-> [secs EXCEPT ![cur] = @ \o line \o <<"\n">>]]
        ELSE [current_section |-> cur, sections |-> secs]

\* The characters line.strip("<bullet>- *") removes; "U+2022" stands for the
\* bullet character.
BulletStripChars == {"U+2022", "-", " ", "*"}

\* cleaned = line.strip("<bullet>- *").strip()
CleanLine(line) == strip(strip_chars(line, BulletStripChars))

\* The list normalize_sections builds for one section text (lines 172-178).
NormalizeText(value) ==
    LET value_lines == splitlines(value)
        cleaned == [i \in DOMAIN value_lines |-> CleanLine(value_lines[i])]
    IN  SelectSeq(cleaned, Truthy)

\* ---- inputs ----

MaxLines == 4

\* The lines resume texts are made of: "SKILLS", "Python, Go", " Work Experience:", "- Built service",
\* the blank line, "Summary of Skills",
\* and a body line of 50 characters that holds the keyword "experience".
LineCorpus ==
    {<<"S","K","I","L","L","S">>,
     <<"P","y","t","h","o","n",","," ","G","o">>,
     <<" ","W","o","r","k"," ","E","x","p","e","r","i","e","n","c","e",":">>,
     <<"-"," ","B","u","i","l","t"," ","s","e","r","v","i","c","e">>,
     <<>>,
     <<"S","u","m","m","a","r","y"," ","o","f"," ","S","k","i","l","l","s">>,
     <<"G","a","i","n","e","d"," ","w","i","d","e"," ","e","x","p","e","r","i","e","n","c","e"," ","b","u","i","l","d","i","n","g"," ","t","o","o","l","s"," ","f","o","r"," ","t","e","n"," ","t","e","a","m">>}

\* "\n".join(lines)
JoinLines(ls) ==
    LET join[i \in 0..Len(ls)] ==
            IF i = 0 THEN <<>>
            ELSE IF i = 1 THEN ls[1]
            ELSE join[i - 1] \o <<"\n">> \o ls[i]
    IN  join[Len(ls)]

ResumeTexts == {JoinLines(ls) : ls \in SeqsUpTo(LineCorpus, MaxLines)}

\* normalize_sections has not run yet.
NotNormalized == <<"unset">>

SegmentInit ==
    /\ resume_text \in ResumeTexts
    /\ lines = <<>>
    /\ line_no = 0
    /\ current_section = NoSection
    /\ sections = [k \in SectionNames |-> <<>>]
    /\ normalized = NotNormalized
    /\ seg_pc = "call"

\* split_into_sections up to the loop (lines 116-134).
split_into_sections ==
    /\ seg_pc = "call"
    /\ sections' = [k \in SectionNames |-> <<>>]
    /\ current_section' = NoSection
    /\ lines' = splitlines(resume_text)
    /\ line_no' = 1
    /\ seg_pc' = "loop"
    /\ UNCHANGED <<resume_text, normalized>>
    /\ SegmentOnly

\* One iteration of `for line in lines`.
split_line ==
    /\ seg_pc = "loop"
    /\ line_no <= Len(lines)
    /\ LET next == SplitLine(current_section, sections, lines[line_no])
       IN  /\ current_section' = next.current_section
           /\ sections' = next.sections
    /\ line_no' = line_no + 1
    /\ UNCHANGED <<resume_text, lines, normalized, seg_pc>>
    /\ SegmentOnly

\* The loop is over: return sections (line 156).
split_return ==
    /\ seg_pc = "loop"
    /\ line_no > Len(lines)
    /\ seg_pc' = "sections"
    /\ UNCHANGED <<resume_text, lines, line_no, current_section, sections, normalized>>
    /\ SegmentOnly

\* normalize_sections(sections) (lines 159-180).
normalize_sections ==
    /\ seg_pc = "sections"
    /\ normalized' = [k \in SectionNames |-> NormalizeText(sections[k])]
    /\ seg_pc' = "normalized"
    /\ UNCHANGED <<resume_text, lines, line_no, current_section, sections>>
    /\ SegmentOnly

SegmentNext == split_into_sections \/ split_line \/ split_return \/ normalize_sections

\* split_into_sections, then normalize_sections, on any resume text.
InitSegment ==
    /\ SegmentInit /\ MatchIdle /\ AnalyzeIdle /\ RewriteIdle /\ SingleIdle /\ CustomizeIdle
    /\ LoadIdle /\ PipelineIdle /\ SessionIdle

SpecSegment == InitSegment /\ [][SegmentNext]_vars

\* ---- normalize_sections called on any section text ----

MaxTextLen == 4

\* The characters section texts are made of: the bullet glyphs, the space, the
\* tab, a letter and the line break.
TextChars == {"U+2022", "-", "*", " ", "\t", "a", "\n"}

\* A sections dict with one section holding an arbitrary text.
SectionsInputs ==
    {[k \in SectionNames |-> IF k = key THEN text ELSE <<>>] :
        key \in SectionNames, text \in SeqsUpTo(TextChars, MaxTextLen)}

NormalizeInit ==
    /\ resume_text = <<>>
    /\ lines = <<>>
    /\ line_no = 1
    /\ current_section = NoSection
    /\ sections \in SectionsInputs
    /\ normalized = NotNormalized
    /\ seg_pc = "sections"

NormalizeNext == normalize_sections

InitNormalize ==
    /\ NormalizeInit /\ MatchIdle /\ AnalyzeIdle /\ RewriteIdle /\ SingleIdle /\ CustomizeIdle
    /\ LoadIdle /\ PipelineIdle /\ SessionIdle

SpecNormalize == InitNormalize /\ [][NormalizeNext]_vars

\* ---- claims about split_into_sections and normalize_sections ----

\* The bullet glyphs.
BulletGlyphs == {"U+2022", "-", "*"}

\* C6 as stated: no item normalize_sections produces begins with a bullet glyph
\* or with whitespace, and normalizing the items joined by line breaks yields
\* the same list again.
C6_NormalizeStripsAndIsIdempotent ==
    seg_pc = "normalized" =>
        \A k \in SectionNames :
            /\ \A i \in DOMAIN normalized[k] :
                   normalized[k][i][1] \notin (BulletGlyphs \cup Whitespace)
            /\ NormalizeText(JoinLines(normalized[k])) = normalized[k]

\* No line of the resume text is classified as a section header.
NoHeaderLine ==
    \A i \in DOMAIN splitlines(resume_text) :
        FoundSection(splitlines(resume_text)[i]) = NoSection

\* C7: for a raw text none of whose lines is classified as a section header
\* (the empty text included), split_into_sections followed by
\* normalize_sections returns all five sections, each as the empty sequence.
C7_NoHeaderAllSectionsEmpty ==
    (seg_pc = "normalized" /\ NoHeaderLine) =>
        /\ DOMAIN normalized = SectionNames
        /\ \A k \in SectionNames : normalized[k] = <<>>

\* C7 witness: a text of several lines, not all blank, without a header has
\* been split and normalized.
C7_Witness ==
    /\ seg_pc = "normalized"
    /\ NoHeaderLine
    /\ Len(lines) >= 2
    /\ \E i \in DOMAIN lines : strip(lines[i]) # <<>>
    /\ \A k \in SectionNames : normalized[k] = <<>>

\* found_section for each line of the text, in order.
HeaderOfLine == [i \in DOMAIN lines |-> FoundSection(lines[i])] \o <<>>

\* The text each section must hold: the non-header lines whose nearest header
\* line above is a header of that section, each followed by a line break, in
\* the order of the text.
ExpectedSections ==
    LET found == HeaderOfLine
        HeadersAbove(i) == {j \in 1..(i - 1) : found[j] # NoSection}
        governing == [i \in DOMAIN lines |->
                         IF HeadersAbove(i) = {} THEN NoSection
                         ELSE found[CHOOSE j \in HeadersAbove(i) :
                                        \A h \in HeadersAbove(i) : h <= j]] \o <<>>
        Filed(k) == {i \in DOMAIN lines : found[i] = NoSection /\ governing[i] = k}
        text[k \in SectionNames, i \in 0..Len(lines)] ==
            IF i = 0 THEN <<>>
            ELSE IF i \in Filed(k) THEN text[k, i - 1] \o lines[i] \o <<"\n">>
            ELSE text[k, i - 1]
    IN  [k \in SectionNames |-> text[k, Len(lines)]]

\* C10: when split_into_sections returns, each section holds exactly the
\* non-header lines between one of its header lines and the next header line,
\* in their original order; so no header line and no line before the first
\* header is in any section.
C10_LinesFiledUnderTheirHeader ==
    seg_pc = "sections" => sections = ExpectedSections

\* C10 witness: a text whose first line precedes every header, whose second
\* line is a skills header and whose next two lines are distinct body lines,
\* which the skills section holds in that order.
C10_Witness ==
    /\ seg_pc = "sections"
    /\ resume_text \in ResumeTexts
    /\ Len(lines) = 4
    /\ lines[1] # <<>> /\ FoundSection(lines[1]) = NoSection
    /\ FoundSection(lines[2]) = "skills"
    /\ FoundSection(lines[3]) = NoSection /\ FoundSection(lines[4]) = NoSection
    /\ lines[3] # lines[4] /\ lines[3] # <<>> /\ lines[4] # <<>>
    /\ sections["skills"] = lines[3] \o <<"\n">> \o lines[4] \o <<"\n">>
    /\ \A k \in SectionNames \ {"skills"} : sections[k] = <<>>


(***************************************************************************)
(* json.loads, on the JSON that is made of objects, arrays, strings        *)
(* without escapes and unsigned integers                                   *)
(***************************************************************************)

JsonWhitespace == {" ", "\t", "\n", "\r"}
Digits == {"0", "1", "2", "3", "4", "5", "6", "7", "8", "9"}

\* A parse that failed (json.JSONDecodeError), and one that read the value v
\* and stands at position next.
ParseFail == [ok |-> FALSE]
ParseOk(v, next) == [ok |-> TRUE, v |-> v, next |-> next]

\* The character at position i, "EOF" past the end.
At(s, i) == IF i \in DOMAIN s THEN s[i] ELSE "EOF"

\* The first position from i on that holds no whitespace.
SkipWs(s, i) ==
    LET rest == {j \in i..Len(s) : s[j] \notin JsonWhitespace}
    IN  IF rest = {} THEN Len(s) + 1 ELSE CHOOSE j \in rest : \A k \in rest : j <= k

\* A dict as the sequence of its keys and the sequence of their values.
JsonDict(keys, vals) == [type |-> "dict", keys |-> keys, vals |-> vals]

\* d[k] = v on the keys and values of a dict: a repeated key keeps its place
\* and takes the later value.
DictSet(keys, vals, k, v) ==
    IF \E n \in DOMAIN keys : keys[n] = k
    THEN JsonDict(keys, [n \in DOMAIN vals |-> IF keys[n] = k THEN v ELSE vals[n]])
    ELSE JsonDict(Append(keys, k), Append(vals, v))

\* A string literal opening at position i.
ParseString(s, i) ==
    LET closing == {j \in (i + 1)..Len(s) : s[j] = "\""}
        close == CHOOSE j \in closing : \A k \in closing : j <= k
    IN  IF closing = {} THEN ParseFail
        ELSE IF \E j \in (i + 1)..(close - 1) : s[j] \in {"\n", "\r", "\t", "\\"} THEN ParseFail
        ELSE ParseOk(PyStr(SubSeq(s, i + 1, close - 1)), close + 1)

\* An unsigned integer starting at position i; a leading 0 stands alone.
ParseNumber(s, i) ==
    LET others == {j \in i..Len(s) : s[j] \notin Digits}
        stop == IF s[i] = "0" THEN i + 1
                ELSE IF others = {} THEN Len(s) + 1
                ELSE CHOOSE j \in others : \A k \in others : j <= k
    IN  ParseOk([type |-> "int", digits |-> SubSeq(s, i, stop - 1)], stop)

RECURSIVE ParseValue(_, _), ParseMembers(_, _, _), ParseElements(_, _, _)

\* The JSON value starting at position i.
ParseValue(s, i) ==
    LET c == At(s, i)
    IN  IF c = "{"
        THEN IF At(s, SkipWs(s, i + 1)) = "}"
             THEN ParseOk(JsonDict(<<>>, <<>>), SkipWs(s, i + 1) + 1)
             ELSE ParseMembers(s, SkipWs(s, i + 1), JsonDict(<<>>, <<>>))
        ELSE IF c = "["
        THEN IF At(s, SkipWs(s, i + 1)) = "]"
             THEN ParseOk(PyList(<<>>), SkipWs(s, i + 1) + 1)
             ELSE ParseElements(s, SkipWs(s, i + 1), <<>>)
        ELSE IF c = "\"" THEN ParseString(s, i)
        ELSE IF c \in Digits THEN ParseNumber(s, i)
        ELSE ParseFail

\* The members of an object from position i on, after the members in d.
ParseMembers(s, i, d) ==
    IF At(s, i) # "\"" THEN ParseFail
    ELSE LET key == ParseString(s, i)
         IN  IF ~key.ok \/ At(s, SkipWs(s, key.next)) # ":" THEN ParseFail
             ELSE LET val == ParseValue(s, SkipWs(s, SkipWs(s, key.next) + 1))
                  IN  IF ~val.ok THEN ParseFail
                      ELSE LET e == SkipWs(s, val.next)
                               next_d == DictSet(d.keys, d.vals, key.v.s, val.v)
                           IN  IF At(s, e) = "}" THEN ParseOk(next_d, e + 1)
                               ELSE IF At(s, e) = ","
                               THEN ParseMembers(s, SkipWs(s, e + 1), next_d)
                               ELSE ParseFail

\* The elements of an array from position i on, after the elements in items.
ParseElements(s, i, items) ==
    LET val == ParseValue(s, i)
    IN  IF ~val.ok THEN ParseFail
        ELSE LET e == SkipWs(s, val.next)
             IN  IF At(s, e) = "]" THEN ParseOk(PyList(Append(items, val.v)), e + 1)
                 ELSE IF At(s, e) = ","
                 THEN ParseElements(s, SkipWs(s, e + 1), Append(items, val.v))
                 ELSE ParseFail

\* json.loads(s): the whole of s must be one value between whitespace.
JsonLoads(s) ==
    LET val == ParseValue(s, SkipWs(s, 1))
    IN  IF val.ok /\ SkipWs(s, val.next) > Len(s) THEN val ELSE ParseFail

(***************************************************************************)
(* JobDescriptionAnalyzer.analyze_jobs and _analyze_single_description     *)
(***************************************************************************)

\* A search that stops at the first "}" after the first "{".
BraceSpan_NonGreedy(response) ==
    LET opens == {i \in DOMAIN response : response[i] = "{"}
        first == CHOOSE i \in opens : \A j \in opens : i <= j
        closes == {i \in DOMAIN response : response[i] = "}" /\ opens # {} /\ i > first}
        last == CHOOSE i \in closes : \A j \in closes : i <= j
    IN  IF opens = {} \/ closes = {} THEN [found |-> FALSE]
        ELSE [found |-> TRUE, group |-> SubSeq(response, first, last)]

\* re.search(r'\{.*\}', response, re.DOTALL): the span from the first "{" to
\* the last "}" after it; no match when there is none.
BraceSpan(response) ==
    LET opens == {i \in DOMAIN response : response[i] = "{"}
        first == CHOOSE i \in opens : \A j \in opens : i <= j
        closes == {i \in DOMAIN response : response[i] = "}" /\ opens # {} /\ i > first}
        last == CHOOSE i \in closes : \A j \in closes : j <= i
    IN  IF opens = {} \/ closes = {} THEN [found |-> FALSE]
        ELSE [found |-> TRUE, group |-> SubSeq(response, first, last)]

\* What a call returns or raises.
Return(value) == [kind |-> "return", value |-> value]
Raise(exception) == [kind |-> "raise", exception |-> exception]

\* The prompt of _analyze_single_description: the fixed text around the description.
AnalysisPrompt(description_text) == [fn |-> "analysis_prompt", description_text |-> description_text]

\* Whether _analyze_single_description queries the LLM for this description:
\* not for an empty or blank one (lines 112-113), and not for a value without
\* strip(), on which line 112 raises.
QueriesLLM(description) == description.type = "str" /\ strip(description.s) # <<>>

\* A handling without the except clauses of lines 153-158.
ParseResponse_NoExcept(outcome) ==
    IF outcome.kind = "raise" THEN outcome
    ELSE IF outcome.value.type = "dict" THEN Return(outcome.value)
    ELSE IF outcome.value.type = "str"
    THEN LET json_match == BraceSpan(outcome.value.s)
             parsed == IF json_match.found THEN JsonLoads(json_match.group)
                       ELSE JsonLoads(outcome.value.s)
         IN  IF parsed.ok THEN Return(parsed.v) ELSE Raise("JSONDecodeError")
    ELSE Return(None)

\* Lines 134-158: the handling of the outcome of self.llm.query(prompt).
ParseResponse(outcome) ==
    IF outcome.kind = "raise" THEN Return(None)
    ELSE IF outcome.value.type = "dict" THEN Return(outcome.value)
    ELSE IF outcome.value.type = "str"
    THEN LET json_match == BraceSpan(outcome.value.s)
             parsed == IF json_match.found THEN JsonLoads(json_match.group)
                       ELSE JsonLoads(outcome.value.s)
         IN  IF parsed.ok THEN Return(parsed.v) ELSE Return(None)
    ELSE Return(None)

\* _analyze_single_description(description_text), given the outcome of the LLM
\* query it makes.  A description that is no string has no strip(): the
\* AttributeError of line 112 is raised outside the try block.
AnalyzeSingleDescription(description, outcome) ==
    IF description.type # "str" THEN Raise("AttributeError")
    ELSE IF ~Truthy(description.s) \/ strip(description.s) = <<>> THEN Return(None)
    ELSE ParseResponse(outcome)

\* `not description` in analyze_jobs: None and "" are falsy, a float nan is not.
Falsy(description) ==
    description = None \/ (description.type = "str" /\ ~Truthy(description.s))

\* One entry of extract_job_descriptions (lines 52-57).
ExtractJob(job) ==
    [title |-> job.title, company |-> job.company,
     description |-> job.description, url |-> job.job_url]

\* An extraction that leaves out the postings without a description.
ExtractJobDescriptions_DropEmpty(job_list) ==
    LET F[i \in 0..Len(job_list)] ==
            IF i = 0 THEN <<>>
            ELSE IF Falsy(job_list[i].description) THEN F[i - 1]
            ELSE Append(F[i - 1], ExtractJob(job_list[i]))
    IN  F[Len(job_list)]

\* extract_job_descriptions(jobs)
ExtractJobDescriptions(job_list) == [i \in DOMAIN job_list |-> ExtractJob(job_list[i])]

\* A loop body without the try/except around the analysis.
AnalyzeJob_NoCatch(job, outcome) ==
    IF Falsy(job.description)
    THEN Return([job_meta |-> job, analysis |-> None])
    ELSE LET result == AnalyzeSingleDescription(job.description, outcome)
         IN  IF result.kind = "raise" THEN result
             ELSE Return([job_meta |-> job, analysis |-> result.value])

\* The body of the loop of analyze_jobs for one extracted job (lines 79-98):
\* the entry it appends.
AnalyzeJob(job, outcome) ==
    IF Falsy(job.description)
    THEN Return([job_meta |-> job, analysis |-> None])
    ELSE LET result == AnalyzeSingleDescription(job.description, outcome)
         IN  Return([job_meta |-> job,
                     analysis |-> IF result.kind = "raise" THEN None ELSE result.value])

\* ---- inputs ----

MaxJobs == 3

\* A float nan, which jobspy leaves where a posting has no description.
NaN == [type |-> "float"]

\* Descriptions: "", " ", "dev" and nan.
Descriptions == {PyStr(<<>>), PyStr(<<" ">>), PyStr(<<"d","e","v">>), NaN}

JobPostings ==
    {[title |-> t, company |-> "Acme", description |-> d, job_url |-> "https://jobs/1"] :
        t \in {"Engineer", "Analyst"}, d \in Descriptions}

\* The texts an LLM answers with: {"k":["Go"]}, Ok: {"k":["Go"]} bye,
\* [1], {k}, no json.
ResponseStrings ==
    {<<"{","\"","k","\"",":","[","\"","G","o","\"","]","}">>,
     <<"O","k",":"," ","{","\"","k","\"",":","[","\"","G","o","\"","]","}"," ","b","y","e">>,
     <<"[","1","]">>,
     <<"{","k","}">>,
     <<"n","o"," ","j","s","o","n">>}

\* What self.llm.query(prompt) does: it raises, or returns a dict, a string or
\* a value of another type.
LLMOutcomes ==
    {Raise("Exception"), Return(None),
     Return(JsonDict(<< <<"k">> >>, << PyList(<< PyStr(<<"G","o">>) >>) >>))}
    \cup {Return(PyStr(r)) : r \in ResponseStrings}

\* The value of outcome where no query is made.
NoQuery == [kind |-> "none"]

AnalyzeInit ==
    /\ llm \in {"None", "client"}
    /\ jobs \in SeqsUpTo(JobPostings, MaxJobs)
    /\ extracted_jobs = <<>>
    /\ idx = 0
    /\ analyzed_jobs = <<>>
    /\ llm_log = <<>>
    /\ analyze_pc = "call"

\* analyze_jobs without an LLM client: log the error, return [] (lines 71-73).
analyze_jobs_no_llm ==
    /\ analyze_pc = "call"
    /\ llm = "None"
    /\ analyzed_jobs' = <<>>
    /\ analyze_pc' = "returned"
    /\ UNCHANGED <<llm, jobs, extracted_jobs, idx, llm_log>>
    /\ AnalyzeOnly

\* analyze_jobs up to its loop (lines 75-76).
analyze_jobs ==
    /\ analyze_pc = "call"
    /\ llm # "None"
    /\ extracted_jobs' = ExtractJobDescriptions(jobs)
    /\ analyzed_jobs' = <<>>
    /\ idx' = 0
    /\ analyze_pc' = "loop"
    /\ UNCHANGED <<llm, jobs, llm_log>>
    /\ AnalyzeOnly

\* One iteration of `for idx, job in enumerate(extracted_jobs)`; the LLM is
\* queried, with any outcome, if the description calls for it.
analyze_job ==
    /\ analyze_pc = "loop"
    /\ idx < Len(extracted_jobs)
    /\ LET job == extracted_jobs[idx + 1]
       IN  \E outcome \in (IF QueriesLLM(job.description) THEN LLMOutcomes ELSE {NoQuery}) :
               /\ llm_log' = IF outcome = NoQuery THEN llm_log
                             ELSE Append(llm_log, [idx |-> idx,
                                                   prompt |-> AnalysisPrompt(job.description.s),
                                                   outcome |-> outcome])
               /\ IF AnalyzeJob(job, outcome).kind = "raise"
                  THEN /\ analyze_pc' = "raised"
                       /\ UNCHANGED <<analyzed_jobs, idx>>
                  ELSE /\ analyzed_jobs' = Append(analyzed_jobs, AnalyzeJob(job, outcome).value)
                       /\ idx' = idx + 1
                       /\ UNCHANGED analyze_pc
    /\ UNCHANGED <<llm, jobs, extracted_jobs>>
    /\ AnalyzeOnly

\* The loop is over: return analyzed_jobs (line 100).
analyze_jobs_return ==
    /\ analyze_pc = "loop"
    /\ idx >= Len(extracted_jobs)
    /\ analyze_pc' = "returned"
    /\ UNCHANGED <<llm, jobs, extracted_jobs, idx, analyzed_jobs, llm_log>>
    /\ AnalyzeOnly

AnalyzeNext == analyze_jobs_no_llm \/ analyze_jobs \/ analyze_job \/ analyze_jobs_return

\* A call of analyze_jobs on any list of postings, with or without an LLM client.
InitAnalyze ==
    /\ AnalyzeInit /\ MatchIdle /\ SegmentIdle /\ RewriteIdle /\ SingleIdle /\ CustomizeIdle
    /\ LoadIdle /\ PipelineIdle /\ SessionIdle

SpecAnalyze == InitAnalyze /\ [][AnalyzeNext]_vars


\* ---- claims about analyze_jobs ----

\* The outcome of the LLM query made for the posting at position i (from 1) of
\* jobs; NoQuery when none was made.
OutcomeFor(i) ==
    LET entries == {n \in DOMAIN llm_log : llm_log[n].idx = i - 1}
    IN  IF entries = {} THEN NoQuery ELSE llm_log[CHOOSE n \in entries : TRUE].outcome

\* The posting's description is empty: None, "" or blank.
EmptyDescription(job) ==
    job.description = None \/ (job.description.type = "str" /\ strip(job.description.s) = <<>>)

\* The analysis of the posting at position i failed: its description is no
\* text, the LLM query raised, the response is neither a mapping nor a string,
\* or the string (its brace span if it has one) is not JSON.
AnalysisFailed(i) ==
    \/ jobs[i].description.type # "str"
    \/ OutcomeFor(i).kind = "raise"
    \/ /\ OutcomeFor(i).kind = "return"
       /\ \/ OutcomeFor(i).value.type \notin {"dict", "str"}
          \/ /\ OutcomeFor(i).value.type = "str"
             /\ ~JsonLoads(IF BraceSpan(OutcomeFor(i).value.s).found
                           THEN BraceSpan(OutcomeFor(i).value.s).group
                           ELSE OutcomeFor(i).value.s).ok

\* The returned sequence runs parallel to the input: same length, the i-th
\* job_meta built from the i-th posting, and a null analysis wherever the
\* description is empty or the analysis failed.
ParallelToInput ==
    /\ Len(analyzed_jobs) = Len(jobs)
    /\ \A i \in DOMAIN jobs :
           /\ analyzed_jobs[i].job_meta =
                  [title |-> jobs[i].title, company |-> jobs[i].company,
                   description |-> jobs[i].description, url |-> jobs[i].job_url]
           /\ (EmptyDescription(jobs[i]) \/ AnalysisFailed(i)) => analyzed_jobs[i].analysis = None

\* C4 as stated: for every input sequence of postings, analyze_jobs returns a
\* sequence of the same length whose i-th job_meta is built from the i-th
\* posting, with a null analysis for every posting whose description is empty
\* or whose analysis failed.
C4_AlwaysParallelToInput ==
    analyze_pc = "returned" => ParallelToInput

\* C4 amended: with an LLM client present, analyze_jobs returns such a parallel
\* sequence; without an LLM client it returns the empty sequence.
C4_ParallelToInputWithClient ==
    analyze_pc = "returned" =>
        IF llm = "None" THEN analyzed_jobs = <<>> ELSE ParallelToInput

\* C4 witness: three different postings were analyzed with a client, one of
\* them without a description and one with an analysis.
C4_Witness ==
    /\ analyze_pc = "returned"
    /\ llm = "client"
    /\ Len(jobs) = 3
    /\ jobs[1] # jobs[2] /\ jobs[2] # jobs[3] /\ jobs[1] # jobs[3]
    /\ \E i \in DOMAIN jobs : jobs[i].description = PyStr(<<>>)
    /\ \E i \in DOMAIN jobs : analyzed_jobs[i].analysis # None

\* The analysis analyze_jobs gives the posting at position i when it is
\* analyzed alone and the LLM answers its query the same way.
AnalysisAlone(i) ==
    LET description == jobs[i].description
        result == AnalyzeSingleDescription(description, OutcomeFor(i))
    IN  IF Falsy(description) \/ result.kind = "raise" THEN None ELSE result.value

\* C5: with an LLM client present, no exception leaves analyze_jobs, and when
\* it returns every posting has its entry: null for a posting with an empty
\* description, a raising query or an unparseable response, and for each
\* posting the analysis it would get if analyzed alone.
C5_FailuresStayLocal ==
    llm = "client" =>
        /\ analyze_pc # "raised"
        /\ analyze_pc = "returned" =>
               /\ DOMAIN analyzed_jobs = DOMAIN jobs
               /\ \A i \in DOMAIN jobs :
                      /\ analyzed_jobs[i].analysis = AnalysisAlone(i)
                      /\ (jobs[i].description = PyStr(<<>>) \/ AnalysisFailed(i))
                             => analyzed_jobs[i].analysis = None

\* C5 witness: a batch of three whose first posting has an empty description,
\* whose second posting's query raised, and whose third posting still got its
\* analysis.
C5_Witness ==
    /\ analyze_pc = "returned"
    /\ llm = "client"
    /\ Len(jobs) = 3
    /\ jobs[1].description = PyStr(<<>>)
    /\ OutcomeFor(2).kind = "raise"
    /\ analyzed_jobs[1].analysis = None
    /\ analyzed_jobs[2].analysis = None
    /\ analyzed_jobs[3].analysis.type = "dict"


(***************************************************************************)
(* RewriteResume.rewrite_text and rewrite_resume_data                      *)
(***************************************************************************)

\* A key the dict does not have.
Absent == [type |-> "absent"]

\* ", ".join(items) and " ".join(items)
JoinWith(sep, items) ==
    LET join[i \in 0..Len(items)] ==
            IF i = 0 THEN <<>>
            ELSE IF i = 1 THEN items[1]
            ELSE join[i - 1] \o sep \o items[i]
    IN  join[Len(items)]

\* str(value): a string is itself, an int its digits, None is "None"; for a
\* list, its bracketed repr.
Str(value) ==
    IF value.type = "str" THEN value.s
    ELSE IF value.type = "int" THEN value.digits
    ELSE IF value.type = "NoneType" THEN <<"N", "o", "n", "e">>
    ELSE IF value.type = "list" THEN <<"[">> \o JoinWith(<<",", " ">>, value.items) \o <<"]">>
    ELSE <<"repr(", value.type, ")">>

\* ", ".join(x) if isinstance(x, list) else str(x), for x = job_analysis.get(key, []).
JoinedField(job, key) ==
    IF key \notin DOMAIN job THEN <<>>
    ELSE IF job[key].type = "list" THEN JoinWith(<<",", " ">>, job[key].items)
    ELSE Str(job[key])

\* summary_prompt(summary, job_analysis): the fixed text of the f-string, one
\* element per stretch, around the three values it embeds.
summary_prompt(summary, job) ==
    <<"\nRewrite this resume summary to better match the job.\nDO NOT fabricate experience. Only emphasize relevant existing experience.\n\nOriginal summary:\n">>
    \o summary \o <<"\n\nJob keywords:\n">> \o JoinedField(job, "keywords")
    \o <<"\n\nRequired skills:\n">> \o JoinedField(job, "required_skills")
    \o <<"\n\nReturn only the rewritten summary, no additional text.\n">>

\* bullet_prompt(bullet, job_analysis)
bullet_prompt(bullet, job) ==
    <<"\nRewrite this resume bullet to better align with the job.\nPreserve truth. Do not exaggerate. Only rephrase to emphasize relevance.\n\nBullet:\n">>
    \o bullet \o <<"\n\nJob keywords:\n">> \o JoinedField(job, "keywords")
    \o <<"\n\nReturn only the rewritten bullet point, no additional text.\n">>

\* rewrite_text(prompt, llm_client), given the outcome of the query it makes:
\* without a client, and when the query raises, it returns the prompt.
rewrite_text(prompt, client, outcome) ==
    IF client = "None" THEN prompt
    ELSE IF outcome.kind = "raise" THEN prompt
    ELSE strip(Str(outcome.value))

\* Truthiness of a resume field: a missing key, None, "" and [] are falsy.
TruthyValue(value) ==
    /\ value # Absent
    /\ value # None
    /\ value.type = "str" => Truthy(value.s)
    /\ value.type = "list" => Len(value.items) > 0

\* ---- inputs ----

MaxBullets == 3
MaxRoles == 1

NumChar == <<"1", "2", "3", "4", "5", "6", "7", "8", "9">>

\* The text of the n-th bullet of a role: "B1", "B2", ...
BulletText(n) == <<"B", NumChar[n]>>

\* The bullets values of a role: a list of the first n bullets, or one bullet
\* given as a string.
BulletsInputs ==
    {PyList([n \in 1..k |-> BulletText(n)]) : k \in 0..MaxBullets} \cup {PyStr(BulletText(1))}

RoleInputs ==
    {[type |-> "dict", title |-> <<"D","e","v">>, company |-> <<"A","c","m","e">>, bullets |-> b] :
        b \in BulletsInputs}

\* The n-th item of an experience given as a list of strings: "E1", "E2", ...
ItemText(n) == <<"E", NumChar[n]>>

\* experience: missing, a list of roles, a list of strings, or a single string.
\* The list of strings is one longer than the longest list of roles.
ExperienceInputs ==
    {Absent, PyStr(<<"W","o","r","k">>), PyList([n \in 1..(MaxRoles + 1) |-> ItemText(n)])}
    \cup {PyList(roles) : roles \in SeqsUpTo(RoleInputs, MaxRoles)}

\* summary: missing, "", a string, or the list of lines load_resume produces.
SummaryInputs ==
    {Absent, PyStr(<<>>), PyStr(<<"S","u","m">>), PyList(<< <<"S","1">>, <<"S","2">> >>)}

RewriteResumeInputs ==
    {[type |-> "dict", summary |-> s, experience |-> e, skills |-> PyList(<< <<"G","o">> >>)] :
        s \in SummaryInputs, e \in ExperienceInputs}

RewriteJobInputs ==
    {None,
     [type |-> "dict", keywords |-> PyList(<< <<"G","o">>, <<"S","Q","L">> >>),
      required_skills |-> PyList(<< <<"G","o">> >>)]}

\* What llm_client.query(prompt) does when asked to rewrite: it raises, or
\* returns a text (here " New ") or a value that is no string.
RewriteOutcomes ==
    {Raise("Exception"), Return(PyStr(<<" ","N","e","w"," ">>)), Return([type |-> "int", digits |-> <<"7">>])}

\* The outcomes of the query one unit makes: none without a client.
QueryOutcomes == IF llm_client = "None" THEN {NoQuery} ELSE RewriteOutcomes

\* The log after the query for a unit (no entry without a client).
Logged(unit, prompt, outcome) ==
    IF outcome = NoQuery THEN rw_log
    ELSE Append(rw_log, [unit |-> unit, prompt |-> prompt, outcome |-> outcome])

RewriteInit ==
    /\ rw_resume \in RewriteResumeInputs
    /\ rw_job \in RewriteJobInputs
    /\ llm_client \in {"None", "client"}
    /\ rewritten = NoResult
    /\ rewritten_experience = <<>>
    /\ new_bullets = <<>>
    /\ role_no = 1
    /\ bullet_no = 1
    /\ rw_log = <<>>
    /\ rw_pc = "call"

\* rewrite_resume_data up to the summary (lines 118-124): the type checks and
\* the shallow copy.
rewrite_resume_data ==
    /\ rw_pc = "call"
    /\ IF rw_resume.type # "dict" \/ rw_job.type # "dict"
       THEN /\ rw_pc' = "raised"
            /\ UNCHANGED rewritten
       ELSE /\ rewritten' = rw_resume
            /\ rw_pc' = "summary"
    /\ UNCHANGED <<rw_resume, rw_job, llm_client, rewritten_experience, new_bullets,
                   role_no, bullet_no, rw_log>>
    /\ RewriteOnly

\* Lines 126-139: the summary.
rewrite_summary ==
    /\ rw_pc = "summary"
    /\ IF TruthyValue(rewritten.summary)
       THEN LET summary_text == IF rewritten.summary.type = "list"
                                THEN JoinWith(<<" ">>, rewritten.summary.items)
                                ELSE Str(rewritten.summary)
                prompt == summary_prompt(summary_text, rw_job)
            IN  \E outcome \in QueryOutcomes :
                    /\ rewritten' = [rewritten EXCEPT
                                        !.summary = PyStr(rewrite_text(prompt, llm_client, outcome))]
                    /\ rw_log' = Logged(<<"summary">>, prompt, outcome)
       ELSE UNCHANGED <<rewritten, rw_log>>
    /\ rw_pc' = "experience"
    /\ UNCHANGED <<rw_resume, rw_job, llm_client, rewritten_experience, new_bullets,
                   role_no, bullet_no>>
    /\ RewriteOnly

\* Lines 142-148 and 179-181: the shape of experience decides the loop.
rewrite_experience ==
    /\ rw_pc = "experience"
    /\ rewritten_experience' = <<>>
    /\ new_bullets' = <<>>
    /\ role_no' = 1
    /\ bullet_no' = 1
    /\ rw_pc' = IF ~TruthyValue(rewritten.experience) THEN "return"
                ELSE IF rewritten.experience.type # "list" THEN "assign"
                ELSE IF rewritten.experience.items[1] \in RoleInputs THEN "roles"
                ELSE "items"
    /\ UNCHANGED <<rw_resume, rw_job, llm_client, rewritten, rw_log>>
    /\ RewriteOnly

\* A step that queries a second time when the first query raises.
rewrite_bullet_Retry ==
    /\ rw_pc = "roles"
    /\ role_no <= Len(rewritten.experience.items)
    /\ LET role == rewritten.experience.items[role_no]
       IN  /\ role.bullets.type = "list"
           /\ bullet_no <= Len(role.bullets.items)
           /\ LET prompt == bullet_prompt(role.bullets.items[bullet_no], rw_job)
                  unit == <<"bullet", role_no, bullet_no>>
              IN  \E first \in QueryOutcomes, second \in QueryOutcomes :
                      LET outcome == IF first # NoQuery /\ first.kind = "raise" THEN second ELSE first
                      IN  /\ new_bullets' =
                                 Append(new_bullets, rewrite_text(prompt, llm_client, outcome))
                          /\ rw_log' =
                                 IF first = NoQuery THEN rw_log
                                 ELSE IF first.kind = "raise"
                                 THEN rw_log \o <<[unit |-> unit, prompt |-> prompt, outcome |-> first],
                                                  [unit |-> unit, prompt |-> prompt, outcome |-> second]>>
                                 ELSE Logged(unit, prompt, first)
    /\ bullet_no' = bullet_no + 1
    /\ UNCHANGED <<rw_resume, rw_job, llm_client, rewritten, rewritten_experience, role_no, rw_pc>>
    /\ RewriteOnly

\* Lines 156-165: one bullet of the role at hand.
rewrite_bullet ==
    /\ rw_pc = "roles"
    /\ role_no <= Len(rewritten.experience.items)
    /\ LET role == rewritten.experience.items[role_no]
       IN  /\ role.bullets.type = "list"
           /\ bullet_no <= Len(role.bullets.items)
           /\ LET prompt == bullet_prompt(role.bullets.items[bullet_no], rw_job)
              IN  \E outcome \in QueryOutcomes :
                      /\ new_bullets' = Append(new_bullets, rewrite_text(prompt, llm_client, outcome))
                      /\ rw_log' = Logged(<<"bullet", role_no, bullet_no>>, prompt, outcome)
    /\ bullet_no' = bullet_no + 1
    /\ UNCHANGED <<rw_resume, rw_job, llm_client, rewritten, rewritten_experience, role_no, rw_pc>>
    /\ RewriteOnly

\* A step that also rewrites the title of the role it appends.
rewrite_role_done_Retitle ==
    /\ rw_pc = "roles"
    /\ role_no <= Len(rewritten.experience.items)
    /\ LET role == rewritten.experience.items[role_no]
       IN  /\ role.bullets.type = "list"
           /\ bullet_no > Len(role.bullets.items)
           /\ rewritten_experience' =
                  Append(rewritten_experience,
                         [role EXCEPT !.bullets = PyList(new_bullets), !.title = <<"N","e","w">>])
    /\ new_bullets' = <<>>
    /\ bullet_no' = 1
    /\ role_no' = role_no + 1
    /\ UNCHANGED <<rw_resume, rw_job, llm_client, rewritten, rw_log, rw_pc>>
    /\ RewriteOnly

\* Lines 167 and 178: the role's bullets are done; append the new role.
rewrite_role_done ==
    /\ rw_pc = "roles"
    /\ role_no <= Len(rewritten.experience.items)
    /\ LET role == rewritten.experience.items[role_no]
       IN  /\ role.bullets.type = "list"
           /\ bullet_no > Len(role.bullets.items)
           /\ rewritten_experience' =
                  Append(rewritten_experience, [role EXCEPT !.bullets = PyList(new_bullets)])
    /\ new_bullets' = <<>>
    /\ bullet_no' = 1
    /\ role_no' = role_no + 1
    /\ UNCHANGED <<rw_resume, rw_job, llm_client, rewritten, rw_log, rw_pc>>
    /\ RewriteOnly

\* Lines 168-178: a role whose bullets value is a single string.
rewrite_single_bullet ==
    /\ rw_pc = "roles"
    /\ role_no <= Len(rewritten.experience.items)
    /\ LET role == rewritten.experience.items[role_no]
           prompt == bullet_prompt(Str(role.bullets), rw_job)
       IN  /\ role.bullets.type # "list"
           /\ \E outcome \in QueryOutcomes :
                  /\ rewritten_experience' =
                         Append(rewritten_experience,
                                [role EXCEPT !.bullets =
                                    PyList(<<rewrite_text(prompt, llm_client, outcome)>>)])
                  /\ rw_log' = Logged(<<"bullet", role_no, 1>>, prompt, outcome)
    /\ role_no' = role_no + 1
    /\ UNCHANGED <<rw_resume, rw_job, llm_client, rewritten, new_bullets, bullet_no, rw_pc>>
    /\ RewriteOnly

\* A loop body that puts each rewritten string in front of the earlier ones.
rewrite_item_Prepend ==
    /\ rw_pc = "items"
    /\ role_no <= Len(rewritten.experience.items)
    /\ LET prompt == bullet_prompt(rewritten.experience.items[role_no], rw_job)
       IN  \E outcome \in QueryOutcomes :
               /\ rewritten_experience' =
                      <<rewrite_text(prompt, llm_client, outcome)>> \o rewritten_experience
               /\ rw_log' = Logged(<<"item", role_no>>, prompt, outcome)
    /\ role_no' = role_no + 1
    /\ UNCHANGED <<rw_resume, rw_job, llm_client, rewritten, new_bullets, bullet_no, rw_pc>>
    /\ RewriteOnly

\* Lines 182-191: one string of a flat experience list.
rewrite_item ==
    /\ rw_pc = "items"
    /\ role_no <= Len(rewritten.experience.items)
    /\ LET prompt == bullet_prompt(rewritten.experience.items[role_no], rw_job)
       IN  \E outcome \in QueryOutcomes :
               /\ rewritten_experience' =
                      Append(rewritten_experience, rewrite_text(prompt, llm_client, outcome))
               /\ rw_log' = Logged(<<"item", role_no>>, prompt, outcome)
    /\ role_no' = role_no + 1
    /\ UNCHANGED <<rw_resume, rw_job, llm_client, rewritten, new_bullets, bullet_no, rw_pc>>
    /\ RewriteOnly

\* The loop over the roles or the strings is over.
rewrite_loop_done ==
    /\ rw_pc \in {"roles", "items"}
    /\ role_no > Len(rewritten.experience.items)
    /\ rw_pc' = "assign"
    /\ UNCHANGED <<rw_resume, rw_job, llm_client, rewritten, rewritten_experience, new_bullets,
                   role_no, bullet_no, rw_log>>
    /\ RewriteOnly

\* Line 193: rewritten["experience"] = rewritten_experience.
rewrite_assign ==
    /\ rw_pc = "assign"
    /\ rewritten' = [rewritten EXCEPT !.experience = PyList(rewritten_experience)]
    /\ rw_pc' = "return"
    /\ UNCHANGED <<rw_resume, rw_job, llm_client, rewritten_experience, new_bullets,
                   role_no, bullet_no, rw_log>>
    /\ RewriteOnly

\* Line 195: return rewritten.
rewrite_return ==
    /\ rw_pc = "return"
    /\ rw_pc' = "returned"
    /\ UNCHANGED <<rw_resume, rw_job, llm_client, rewritten, rewritten_experience, new_bullets,
                   role_no, bullet_no, rw_log>>
    /\ RewriteOnly

RewriteNext ==
    \/ rewrite_resume_data \/ rewrite_summary \/ rewrite_experience
    \/ rewrite_bullet \/ rewrite_role_done \/ rewrite_single_bullet \/ rewrite_item
    \/ rewrite_loop_done \/ rewrite_assign \/ rewrite_return

\* A call of rewrite_resume_data on any resume, with or without an LLM client.
InitRewrite ==
    /\ RewriteInit /\ MatchIdle /\ SegmentIdle /\ AnalyzeIdle /\ SingleIdle /\ CustomizeIdle
    /\ LoadIdle /\ PipelineIdle /\ SessionIdle

SpecRewrite == InitRewrite /\ [][RewriteNext]_vars

\* ---- claims about rewrite_resume_data ----

\* The text the LLM returned for a unit, as rewrite_text cleans it.
RewrittenText(outcome) == strip(Str(outcome.value))

\* C2 as stated: in the returned resume, every bullet of a structured
\* experience entry whose LLM query raised holds its original text at its
\* position, every other bullet holds the LLM's rewritten text, and a summary
\* whose query raised keeps its original text.
C2_RaisingUnitKeepsOriginalText ==
    rw_pc = "returned" =>
        \A n \in DOMAIN rw_log :
            LET unit == rw_log[n].unit
                outcome == rw_log[n].outcome
            IN  /\ (unit[1] = "bullet" /\ rw_resume.experience.items[unit[2]].bullets.type = "list") =>
                       rewritten.experience.items[unit[2]].bullets.items[unit[3]] =
                           IF outcome.kind = "raise"
                           THEN rw_resume.experience.items[unit[2]].bullets.items[unit[3]]
                           ELSE RewrittenText(outcome)
                /\ (unit[1] = "summary" /\ outcome.kind = "raise" /\ rw_resume.summary.type = "str") =>
                       rewritten.summary = rw_resume.summary

(***************************************************************************)
(* BuildResume.analyze_job: one description through                        *)
(* JobDescriptionAnalyzer._analyze_single_description                      *)
(***************************************************************************)

MaxProse == 2

\* The characters of the text an LLM puts around its JSON.
ProseChars == {"{", "}", "x", "\""}

\* The texts before and after the JSON of a response.
Prose == SeqsUpTo(ProseChars, MaxProse)

\* The objects an LLM answers with: {"k":1}, {} and {"k":{"j":1}}.
ObjectTexts ==
    {<<"{","\"","k","\"",":","1","}">>,
     <<"{","}">>,
     <<"{","\"","k","\"",":","{","\"","j","\"",":","1","}","}">>}

\* Other answers: [1], {k}, 1 and nothing.
OtherTexts == {<<"[","1","]">>, <<"{","k","}">>, <<"1">>, <<>>}

\* The strings self.llm.query(prompt) returns: an answer with text around it.
ResponseTexts == {p \o core \o s : p \in Prose, s \in Prose, core \in ObjectTexts \cup OtherTexts}

\* What self.llm.query(prompt) does: it raises, or returns a dict, a string or
\* a value of another type.
SingleOutcomes ==
    {Raise("Exception"), Return(None), Return([type |-> "int", digits |-> <<"7">>]),
     Return(JsonDict(<< <<"k">> >>, << [type |-> "int", digits |-> <<"1">>] >>))}
    \cup {Return(PyStr(r)) : r \in ResponseTexts}

\* The descriptions handed to analyze_job: None, "", " ", "dev" and a float nan.
SingleDescriptions == {None, NaN, PyStr(<<>>), PyStr(<<" ">>), PyStr(<<"d","e","v">>)}

SingleInit ==
    /\ analyzer \in {"None", "client"}
    /\ job_description \in SingleDescriptions
    /\ llm_response = NoQuery
    /\ single_result = NoResult
    /\ single_pc = "call"

\* BuildResume.analyze_job without an analyzer (lines 58-59): ValueError.
build_analyze_job_no_client ==
    /\ single_pc = "call"
    /\ analyzer = "None"
    /\ single_result' = Raise("ValueError")
    /\ single_pc' = "raised"
    /\ UNCHANGED <<analyzer, job_description, llm_response>>
    /\ SingleOnly

\* BuildResume.analyze_job with an analyzer, up to the LLM query of
\* _analyze_single_description (lines 112-133): None for a falsy or blank
\* description; a truthy value without strip() raises at line 112.
build_analyze_job ==
    /\ single_pc = "call"
    /\ analyzer # "None"
    /\ IF job_description = None
       THEN single_result' = Return(None) /\ single_pc' = "returned"
       ELSE IF job_description.type # "str"
       THEN single_result' = Raise("AttributeError") /\ single_pc' = "raised"
       ELSE IF ~QueriesLLM(job_description)
       THEN single_result' = Return(None) /\ single_pc' = "returned"
       ELSE single_pc' = "query" /\ UNCHANGED single_result
    /\ UNCHANGED <<analyzer, job_description, llm_response>>
    /\ SingleOnly

\* Line 135: response = self.llm.query(prompt), with any outcome.
llm_query ==
    /\ single_pc = "query"
    /\ llm_response' \in SingleOutcomes
    /\ single_pc' = "parse"
    /\ UNCHANGED <<analyzer, job_description, single_result>>
    /\ SingleOnly

\* Lines 137-158: the response is parsed and the analysis returned.
parse_response ==
    /\ single_pc = "parse"
    /\ single_result' = ParseResponse(llm_response)
    /\ single_pc' = IF ParseResponse(llm_response).kind = "raise" THEN "raised" ELSE "returned"
    /\ UNCHANGED <<analyzer, job_description, llm_response>>
    /\ SingleOnly

SingleNext == build_analyze_job_no_client \/ build_analyze_job \/ llm_query \/ parse_response

\* A call of BuildResume.analyze_job on any description.
InitSingle ==
    /\ SingleInit /\ MatchIdle /\ SegmentIdle /\ AnalyzeIdle /\ RewriteIdle /\ CustomizeIdle
    /\ LoadIdle /\ PipelineIdle /\ SessionIdle

SpecSingle == InitSingle /\ [][SingleNext]_vars

\* ---- claims about _analyze_single_description ----

\* The LLM was queried and answered with a string, and the call is over.
StringResponse ==
    /\ single_pc \in {"returned", "raised"}
    /\ llm_response.kind = "return"
    /\ llm_response.value.type = "str"

\* Some "{" of r has a "}" after it.
HasBraceSpan(r) == \E i, j \in DOMAIN r : i < j /\ r[i] = "{" /\ r[j] = "}"

FirstOpen(r) == CHOOSE i \in DOMAIN r : r[i] = "{" /\ \A k \in 1..(i - 1) : r[k] # "{"
LastClose(r) == CHOOSE j \in DOMAIN r : r[j] = "}" /\ \A k \in (j + 1)..Len(r) : r[k] # "}"

\* The value text parses to as JSON, None when it is no JSON.
ParsedOrNone(text) == IF JsonLoads(text).ok THEN JsonLoads(text).v ELSE None

NoBrace(text) == \A i \in DOMAIN text : text[i] \notin {"{", "}"}

\* C11: for a string response, the analysis is the parse of the span from the
\* first "{" to the last "}" whenever some "{" has a "}" after it (None if that
\* span is no JSON, the whole string is not tried), and the parse of the whole
\* string otherwise; so an object between two texts without braces is returned
\* with its fields unchanged.
C11_BraceSpanFirstThenWhole ==
    StringResponse =>
        LET r == llm_response.value.s
        IN  /\ single_result =
                   Return(IF HasBraceSpan(r)
                          THEN ParsedOrNone(SubSeq(r, FirstOpen(r), LastClose(r)))
                          ELSE ParsedOrNone(r))
            /\ \A i \in 0..Len(r) : \A j \in i..Len(r) :
                   LET p == SubSeq(r, 1, i)
                       core == SubSeq(r, i + 1, j)
                       s == SubSeq(r, j + 1, Len(r))
                   IN  (NoBrace(p) /\ NoBrace(s) /\ core \in ObjectTexts) =>
                           single_result = Return(JsonLoads(core).v)

\* The response x{"k":{"j":1}}x came back as the object {"k": {"j": 1}}.
C11_Witness ==
    /\ StringResponse
    /\ llm_response.value.s =
           <<"x">> \o <<"{","\"","k","\"",":","{","\"","j","\"",":","1","}","}">> \o <<"x">>
    /\ single_result =
           Return(JsonDict(<< <<"k">> >>,
                           << JsonDict(<< <<"j">> >>, << [type |-> "int", digits |-> <<"1">>] >>) >>))

\* The LLM was queried and the call is over.
QueriedAndOver == single_pc \in {"returned", "raised"} /\ llm_response # NoQuery

\* No part of text is JSON: neither the whole of it nor any stretch of it from
\* a "{" to a "}".
NoJsonIn(text) ==
    /\ ~JsonLoads(text).ok
    /\ \A i, j \in DOMAIN text :
           (i < j /\ text[i] = "{" /\ text[j] = "}") => ~JsonLoads(SubSeq(text, i, j)).ok

\* A response that cannot be parsed: the query raised, or returned a value
\* that is neither a mapping nor a string, or a string without JSON in it.
Unparsable(outcome) ==
    \/ outcome.kind = "raise"
    \/ /\ outcome.kind = "return"
       /\ outcome.value.type \notin {"dict", "str"}
    \/ /\ outcome.kind = "return"
       /\ outcome.value.type = "str"
       /\ NoJsonIn(outcome.value.s)

\* C12: whatever the LLM query does (raise, or return a string or any other
\* value), _analyze_single_description returns: no exception leaves it, and
\* for a response that cannot be parsed it returns None.
C12_ParsingNeverRaises ==
    QueriedAndOver =>
        /\ single_pc = "returned"
        /\ single_result.kind = "return"
        /\ Unparsable(llm_response) => single_result = Return(None)

\* The response x{k}" could not be parsed and the analysis is None.
C12_Witness ==
    /\ QueriedAndOver
    /\ llm_response = Return(PyStr(<<"x", "{", "k", "}", "\"">>))
    /\ single_result = Return(None)

\* ---- more claims about rewrite_resume_data ----

\* The experience of resume is a list of role dicts whose bullets are lists.
StructuredExperience(resume) ==
    /\ resume.experience # Absent
    /\ resume.experience.type = "list"
    /\ \A n \in DOMAIN resume.experience.items :
           /\ resume.experience.items[n] \in RoleInputs
           /\ resume.experience.items[n].bullets.type = "list"

\* C13 as stated: without an LLM client the call returns a resume that carries
\* the original summary text and the original text of every experience bullet.
C13_NoClientKeepsOriginalText ==
    (rw_pc = "returned" /\ llm_client = "None") =>
        /\ (rw_resume.summary # Absent /\ rw_resume.summary.type = "str") =>
               rewritten.summary = rw_resume.summary
        /\ StructuredExperience(rw_resume) =>
               /\ Len(rewritten.experience.items) = Len(rw_resume.experience.items)
               /\ \A n \in DOMAIN rw_resume.experience.items :
                      rewritten.experience.items[n].bullets =
                          rw_resume.experience.items[n].bullets

(***************************************************************************)
(* BuildResume.customize_for_job on a heap of dicts and lists: which       *)
(* objects rewrite_resume_data allocates and which it writes to            *)
(***************************************************************************)

\* A reference to the object at address addr of the heap.  The heap is the
\* sequence of the objects allocated so far; a dict holds, for each key, a
\* string, a reference or Absent, and a list holds strings or references.
Ref(addr) == [type |-> "ref", addr |-> addr]

\* dict.copy() without the copy: the same object again.
CopyDict_Alias(h, addr) == [h |-> h, addr |-> addr]

\* dict.copy(): a new dict with the same values (shallow).
CopyDict(h, addr) == [h |-> Append(h, h[addr]), addr |-> Len(h) + 1]

\* A new list with these items.
NewList(h, items) == [h |-> Append(h, PyList(items)), addr |-> Len(h) + 1]

\* Truthiness of the value of a key: a missing key, "" and [] are falsy.
HeapTruthy(h, value) ==
    /\ value # Absent
    /\ value.type = "str" => Truthy(value.s)
    /\ value.type = "ref" => (h[value.addr].type = "list" => Len(h[value.addr].items) > 0)

\* The texts of a list of strings.
Texts(h, addr) == [n \in DOMAIN h[addr].items |-> h[addr].items[n].s]

\* The outcome of the n-th LLM query of a call; none without a client.
UnitOutcome(client, out, n) == IF client = "None" THEN NoQuery ELSE out[n]

\* Lines 126-139 on the dict at address r.
HeapRewriteSummary(h, r, job, client, out) ==
    LET summary == h[r].summary
        summary_text == IF summary.type = "ref" THEN JoinWith(<<" ">>, Texts(h, summary.addr))
                        ELSE summary.s
    IN  IF HeapTruthy(h, summary)
        THEN [h EXCEPT ![r].summary =
                 PyStr(rewrite_text(summary_prompt(summary_text, job), client,
                                    UnitOutcome(client, out, 1)))]
        ELSE h

\* The rewritten strings of the list at addr, as the units from first on.
HeapRewriteItems(h, addr, job, client, out, first) ==
    [n \in DOMAIN h[addr].items |->
        PyStr(rewrite_text(bullet_prompt(h[addr].items[n].s, job), client,
                           UnitOutcome(client, out, first + n)))]

MaxHeapBullets == 2

\* Lines 151-178 for the role at address role, the n-th of the list: a copy of
\* the role whose bullets are a new list.
HeapRewriteRole(h, role, n, job, client, out) ==
    LET copied == CopyDict(h, role)
        bullets == copied.h[copied.addr].bullets
        first == 1 + (n - 1) * MaxHeapBullets
        listed == IF bullets.type = "ref"
                  THEN NewList(copied.h,
                               HeapRewriteItems(copied.h, bullets.addr, job, client, out, first))
                  ELSE NewList(copied.h,
                               <<PyStr(rewrite_text(bullet_prompt(bullets.s, job), client,
                                                    UnitOutcome(client, out, first + 1)))>>)
    IN  [h |-> [listed.h EXCEPT ![copied.addr].bullets = Ref(listed.addr)],
         addr |-> copied.addr]

\* Lines 150-178: the loop over the roles of the list at addr; the heap after
\* it and the references appended to rewritten_experience.
HeapRewriteRoles(h, addr, job, client, out) ==
    LET roles == h[addr].items
        loop[n \in 0..Len(roles)] ==
            IF n = 0 THEN [h |-> h, refs |-> <<>>]
            ELSE LET done == HeapRewriteRole(loop[n - 1].h, roles[n].addr, n, job, client, out)
                 IN  [h |-> done.h, refs |-> Append(loop[n - 1].refs, Ref(done.addr))]
    IN  loop[Len(roles)]

\* Lines 142-193 on the dict at address r.
HeapRewriteExperience(h, r, job, client, out) ==
    LET experience == h[r].experience
        rewritten_list ==
            IF experience.type = "ref" /\ h[experience.addr].type = "list"
            THEN IF h[experience.addr].items[1].type = "ref"
                 THEN LET roles == HeapRewriteRoles(h, experience.addr, job, client, out)
                      IN  NewList(roles.h, roles.refs)
                 ELSE NewList(h, HeapRewriteItems(h, experience.addr, job, client, out, 1))
            ELSE NewList(h, <<>>)
    IN  IF HeapTruthy(h, experience)
        THEN [rewritten_list.h EXCEPT ![r].experience = Ref(rewritten_list.addr)]
        ELSE h

\* rewrite_resume_data(resume_data, job_analysis, llm_client) for the dict at
\* address addr: the heap after the call and what the call returns or raises.
HeapRewriteResumeData(h, addr, job, client, out) ==
    IF job.type # "dict" THEN [h |-> h, result |-> Raise("ValueError")]
    ELSE LET copied == CopyDict(h, addr)
             with_summary == HeapRewriteSummary(copied.h, copied.addr, job, client, out)
         IN  [h |-> HeapRewriteExperience(with_summary, copied.addr, job, client, out),
              result |-> Return(Ref(copied.addr))]

\* ---- inputs ----

MaxCalls == 2

\* The most LLM queries one call makes: the summary and the bullets of two roles.
MaxUnits == 1 + 2 * MaxHeapBullets

\* What llm_client.query(prompt) does in each query of a call.
CallOutcomes == [1..MaxUnits -> {Raise("Exception"), Return(PyStr(<<" ","N","e","w"," ">>))}]

HeapSkills == PyList(<<PyStr(<<"G","o">>)>>)

\* The resume as load_resume builds it: every section a list of strings.
LoadedHeap ==
    <<[type |-> "dict", summary |-> Ref(2), experience |-> Ref(3), skills |-> Ref(4)],
      PyList(<<PyStr(<<"S","1">>), PyStr(<<"S","2">>)>>),
      PyList(<<PyStr(<<"E","1">>), PyStr(<<"E","2">>)>>),
      HeapSkills>>

\* A resume with structured experience: a role with two bullets and a role
\* whose bullets value is one string.
StructuredHeap ==
    <<[type |-> "dict", summary |-> PyStr(<<"S","u","m">>), experience |-> Ref(2), skills |-> Ref(3)],
      PyList(<<Ref(4), Ref(6)>>),
      HeapSkills,
      [type |-> "dict", title |-> <<"D","e","v">>, company |-> <<"A","c","m","e">>, bullets |-> Ref(5)],
      PyList(<<PyStr(BulletText(1)), PyStr(BulletText(2))>>),
      [type |-> "dict", title |-> <<"O","p","s">>, company |-> <<"A","c","m","e">>,
       bullets |-> PyStr(BulletText(3))]>>

\* A resume without summary and experience, and one whose experience is a string.
BareHeap ==
    <<[type |-> "dict", summary |-> Absent, experience |-> Absent, skills |-> Ref(2)], HeapSkills>>
StringExperienceHeap ==
    <<[type |-> "dict", summary |-> PyStr(<<>>), experience |-> PyStr(<<"W","o","r","k">>),
       skills |-> Ref(2)],
      HeapSkills>>

\* self.resume_data is the dict at address 1 of each.
ResumeHeaps == {LoadedHeap, StructuredHeap, BareHeap, StringExperienceHeap}

CustomizeJobs ==
    {None,
     [type |-> "dict", keywords |-> PyList(<< <<"G","o">> >>), required_skills |-> PyList(<<>>)],
     [type |-> "dict", keywords |-> PyList(<< <<"S","Q","L">> >>),
      required_skills |-> PyList(<< <<"S","Q","L">> >>)]}

CustomizeInit ==
    /\ heap \in ResumeHeaps
    /\ stored = Ref(1)
    /\ loaded = heap
    /\ cust_client \in {"None", "client"}
    /\ customized = <<>>
    /\ cust_calls = 0
    /\ cust_pc = "loaded"

\* BuildResume.customize_for_job(job_analysis) without an output path (lines
\* 114-128): rewrite_resume_data on a copy of the stored dict.
customize_for_job ==
    /\ cust_pc = "loaded"
    /\ cust_calls < MaxCalls
    /\ \E job \in CustomizeJobs, out \in CallOutcomes :
           LET copied == CopyDict(heap, stored.addr)
               call == HeapRewriteResumeData(copied.h, copied.addr, job, cust_client, out)
           IN  /\ heap' = call.h
               /\ customized' = IF call.result.kind = "raise" THEN customized
                                ELSE Append(customized, call.result.value)
    /\ cust_calls' = cust_calls + 1
    /\ UNCHANGED <<stored, loaded, cust_client, cust_pc>>
    /\ CustomizeOnly

\* The caller is done with the builder.
customize_done ==
    /\ cust_pc = "loaded"
    /\ cust_pc' = "done"
    /\ UNCHANGED <<heap, stored, loaded, cust_client, customized, cust_calls>>
    /\ CustomizeOnly

CustomizeNext == customize_for_job \/ customize_done

\* A builder with a resume loaded, then any customize_for_job calls.
InitCustomize ==
    /\ CustomizeInit /\ MatchIdle /\ SegmentIdle /\ AnalyzeIdle /\ RewriteIdle /\ SingleIdle
    /\ LoadIdle /\ PipelineIdle /\ SessionIdle

SpecCustomize == InitCustomize /\ [][CustomizeNext]_vars

\* ---- claims about customize_for_job ----

EndsWith(s, suffix) ==
    /\ Len(s) >= Len(suffix)
    /\ SubSeq(s, Len(s) - Len(suffix) + 1, Len(s)) = suffix

\* An exception raised while handling another (raise ... from e).
RaiseFrom(exception, cause) == [kind |-> "raise", exception |-> exception, cause |-> cause]

\* The loop over reader.pages (lines 38-46): the text of every page that
\* yields one, each followed by a line break; a page whose extraction raises
\* is skipped.
FullText(pages) ==
    LET text[n \in 0..Len(pages)] ==
            IF n = 0 THEN <<>>
            ELSE IF pages[n].kind = "return" /\ Truthy(pages[n].value)
            THEN text[n - 1] \o pages[n].value \o <<"\n">>
            ELSE text[n - 1]
    IN  text[Len(pages)]

\* extract_text_from_pdf(pdf_path) on a file system where the file at the path
\* exists or not and, read as a PDF, is unreadable or has these pages.
ExtractTextFromPdf(path, file) ==
    IF ~file.exists THEN Raise("FileNotFoundError")
    ELSE IF ~EndsWith(lower(path), <<".", "p", "d", "f">>) THEN Raise("ValueError")
    ELSE IF ~file.readable THEN Raise("PdfReadError")
    ELSE IF Len(file.pages) = 0 THEN Raise("ValueError")
    ELSE IF strip(FullText(file.pages)) = <<>> THEN Raise("ValueError")
    ELSE Return(FullText(file.pages))

\* split_into_sections(resume_text): the loop over all lines.
SplitIntoSections(text) ==
    LET text_lines == splitlines(text)
        loop[n \in 0..Len(text_lines)] ==
            IF n = 0
            THEN [current_section |-> NoSection, sections |-> [k \in SectionNames |-> <<>>]]
            ELSE SplitLine(loop[n - 1].current_section, loop[n - 1].sections, text_lines[n])
    IN  loop[Len(text_lines)].sections

\* normalize_sections(sections)
NormalizeSections(secs) == [k \in SectionNames |-> NormalizeText(secs[k])]

\* load_resume(pdf_path), given what extract_text_from_pdf did (lines 198-220):
\* the five normalized sections (the contact fields, which cannot fail, are
\* left out), or RuntimeError raised from whatever was raised.
LoadResume(extracted) ==
    IF extracted.kind = "raise" THEN RaiseFrom("RuntimeError", extracted.exception)
    ELSE Return(NormalizeSections(SplitIntoSections(extracted.value)))

\* ---- inputs ----

MaxPages == 2

\* cv.pdf, CV.PDF and cv.txt
PdfPaths ==
    {<<"c","v",".","p","d","f">>, <<"C","V",".","P","D","F">>, <<"c","v",".","t","x","t">>}

\* What page.extract_text() does: it raises, or returns "", " ", "Go" or
\* "SKILLS\nGo".
PageOutcomes ==
    {Raise("Exception"), Return(<<>>), Return(<<" ">>), Return(<<"G","o">>),
     Return(<<"S","K","I","L","L","S","\n","G","o">>)}

PdfFiles ==
    {[exists |-> e, readable |-> r, pages |-> p] :
        e \in BOOLEAN, r \in BOOLEAN, p \in SeqsUpTo(PageOutcomes, MaxPages)}

LoadInit ==
    /\ pdf_path \in PdfPaths
    /\ pdf_file \in PdfFiles
    /\ extraction = NoResult
    /\ load_outcome = NoResult
    /\ builder_resume_data = None
    /\ load_pc = "call"

\* extract_text_from_pdf(pdf_path), called at line 200.
extract_text_from_pdf ==
    /\ load_pc = "call"
    /\ extraction' = ExtractTextFromPdf(pdf_path, pdf_file)
    /\ load_pc' = "extracted"
    /\ UNCHANGED <<pdf_path, pdf_file, load_outcome, builder_resume_data>>
    /\ LoadOnly

\* The rest of load_resume: the record, or the except clause of line 219.
load_resume ==
    /\ load_pc = "extracted"
    /\ load_outcome' = LoadResume(extraction)
    /\ load_pc' = "loaded"
    /\ UNCHANGED <<pdf_path, pdf_file, extraction, builder_resume_data>>
    /\ LoadOnly

\* BuildResume.load_resume_from_pdf (lines 45-46): the record is stored and
\* returned; an exception of load_resume passes through.
load_resume_from_pdf ==
    /\ load_pc = "loaded"
    /\ IF load_outcome.kind = "raise"
       THEN load_pc' = "raised" /\ UNCHANGED builder_resume_data
       ELSE load_pc' = "returned" /\ builder_resume_data' = load_outcome.value
    /\ UNCHANGED <<pdf_path, pdf_file, extraction, load_outcome>>
    /\ LoadOnly

LoadNext == extract_text_from_pdf \/ load_resume \/ load_resume_from_pdf

\* A call of load_resume_from_pdf on a new builder, for any path and file.
InitLoad ==
    /\ LoadInit /\ MatchIdle /\ SegmentIdle /\ AnalyzeIdle /\ RewriteIdle /\ SingleIdle
    /\ CustomizeIdle /\ PipelineIdle /\ SessionIdle

SpecLoad == InitLoad /\ [][LoadNext]_vars

\* ---- claims about load_resume ----

\* The file is a PDF by its name, can be read, and has no page or no text.
EmptyPdf ==
    /\ pdf_file.exists /\ pdf_file.readable
    /\ EndsWith(lower(pdf_path), <<".", "p", "d", "f">>)
    /\ \A n \in DOMAIN pdf_file.pages :
           pdf_file.pages[n].kind = "raise" \/ strip(pdf_file.pages[n].value) = <<>>

\* C15 as stated: load_resume raises FileNotFoundError when the file does not
\* exist and ValueError when it is no PDF, has no pages or yields no text; the
\* caller sees that exception and gets no record.
C15_LoadRaisesNamedErrors ==
    load_pc \in {"loaded", "raised", "returned"} =>
        /\ ~pdf_file.exists =>
               /\ load_outcome = Raise("FileNotFoundError")
               /\ builder_resume_data = None
        /\ (pdf_file.exists /\ (~EndsWith(lower(pdf_path), <<".", "p", "d", "f">>) \/ EmptyPdf)) =>
               /\ load_outcome = Raise("ValueError")
               /\ builder_resume_data = None

\* ---- more claims about split_into_sections ----

\* The sections one of whose keywords the trimmed, lowercased line contains.
KeywordSections(line) ==
    {name \in SectionNames :
        \E k \in DOMAIN section_patterns[name] :
            Contains(section_patterns[name][k], lower(strip(line)))}

\* The position of a section in the fixed order summary, skills, experience,
\* projects, education.
OrderOf(name) ==
    CHOOSE n \in 1..5 : <<"summary", "skills", "experience", "projects", "education">>[n] = name

\* The line the loop has just handled.
LineHandled == seg_pc = "loop" /\ line_no > 1
LastLine == lines[line_no - 1]

\* C16: a short line that holds keywords of several sections becomes the
\* header of the one that comes first in the order summary, skills,
\* experience, projects, education, wherever in the text the line stands.
C16_FirstSectionInOrderWins ==
    (LineHandled /\ Len(strip(LastLine)) < 50 /\ Cardinality(KeywordSections(LastLine)) > 1) =>
        /\ current_section \in KeywordSections(LastLine)
        /\ \A name \in KeywordSections(LastLine) : OrderOf(current_section) <= OrderOf(name)

\* The line "Summary of Skills", with keywords of summary and of skills, made
\* summary the current section after skills had been current.
C16_Witness ==
    /\ LineHandled
    /\ line_no > 2
    /\ lines[line_no - 2] = <<"S","K","I","L","L","S">>
    /\ LastLine = <<"S","u","m","m","a","r","y"," ","o","f"," ","S","k","i","l","l","s">>
    /\ current_section = "summary"

\* A line is a header by the stated rule: a keyword in it, and fewer than 50
\* characters once trimmed.
HeaderByRule(line) == KeywordSections(line) # {} /\ Len(strip(line)) < 50

\* C17: the loop treats a line as a header (switches the section and appends
\* nothing) exactly when the line holds a keyword and is shorter than 50
\* characters once trimmed; any other line, a line of 50 or more characters
\* with a keyword included, is appended to the current section if there is one.
C17_HeaderIffKeywordAndShort ==
    [][split_line =>
          LET line == lines[line_no]
          IN  IF HeaderByRule(line)
              THEN /\ sections' = sections
                   /\ current_section' \in KeywordSections(line)
              ELSE /\ current_section' = current_section
                   /\ sections' = IF current_section = NoSection THEN sections
                                   ELSE [sections EXCEPT
                                            ![current_section] = @ \o line \o <<"\n">>]]_vars

\* The line of 50 characters that holds "experience" was appended to skills.
C17_Witness ==
    /\ LineHandled
    /\ Len(LastLine) = 50
    /\ "experience" \in KeywordSections(LastLine)
    /\ current_section = "skills"
    /\ sections["skills"] = LastLine \o <<"\n">>

\* ---- more claims about match_resume_to_job ----

\* C18: in every match report, emphasize_skills holds exactly the skills of
\* matched_required_skills and matched_preferred_skills together, and
\* resume_gaps exactly those of missing_required_skills.
C18_EmphasizeAndGapsAreAliases ==
    (match_pc = "returned" /\ match_result # None) =>
        /\ match_result.emphasize_skills =
               match_result.matched_required_skills \cup match_result.matched_preferred_skills
        /\ match_result.resume_gaps = match_result.missing_required_skills

\* A report with a matched required skill, a matched preferred skill that is
\* not required, and a gap.
C18_Witness ==
    /\ match_pc = "returned"
    /\ match_result # None
    /\ match_result.matched_required_skills # {}
    /\ match_result.matched_preferred_skills \ match_result.matched_required_skills # {}
    /\ match_result.resume_gaps # {}

(***************************************************************************)
(* One job through BuildResume: analyze_job, match_resume_to_job,          *)
(* customize_for_job                                                       *)
(***************************************************************************)

\* The six fields of a job analysis.
ListFields == {"required_skills", "preferred_skills", "tools", "responsibilities", "keywords"}
AnalysisFields == ListFields \cup {"seniority_level"}

\* The value the LLM gives a field it fills in.
FieldValue(field) ==
    IF field = "seniority_level" THEN PyStr(<<"m","i","d">>)
    ELSE IF field = "required_skills" THEN PyList(<< <<"g","o">>, <<"S","Q","L">> >>)
    ELSE PyList(<< <<"G","o"," ">> >>)

\* A dict with the keys of the function fields (a field name to its value).
DictOf(fields) ==
    [k \in DOMAIN fields \cup {"type"} |-> IF k = "type" THEN "dict" ELSE fields[k]]

\* The mappings an LLM answers with: each field is missing, filled in, or null.
AnalysisDicts ==
    UNION {{DictOf([k \in present |-> IF k \in nulls THEN None ELSE FieldValue(k)]) :
               nulls \in SUBSET present} :
           present \in SUBSET AnalysisFields}

\* A lookup without the default: job_analysis.get(key)
JobField_NoDefault(job, key, default) == IF key \in DOMAIN job THEN job[key] ELSE None

\* job_analysis.get(key, default)
JobField(job, key, default) == IF key \in DOMAIN job THEN job[key] ELSE default

\* match_resume_to_job(resume_data, job_analysis) for a job analysis as the LLM
\* gave it: iterating over a field that is no list raises TypeError.
MatchOutcome(resume, job) ==
    IF job = None THEN Return(None)
    ELSE LET required == JobField(job, "required_skills", PyList(<<>>))
             preferred == JobField(job, "preferred_skills", PyList(<<>>))
         IN  IF required.type # "list" \/ preferred.type # "list" THEN Raise("TypeError")
             ELSE Return(MatchReport(resume, [type |-> "dict",
                                              required_skills |-> required.items,
                                              preferred_skills |-> preferred.items]))

\* self.llm.query(prompt) for the analysis: a mapping, a value that is neither
\* mapping nor string, or an exception.
PipelineOutcomes ==
    {Raise("Exception"), Return(None)} \cup {Return(d) : d \in AnalysisDicts}

PipelineInit ==
    /\ pipe_heap \in {LoadedHeap, StructuredHeap}
    /\ pipe_response = NoQuery
    /\ pipe_analysis = NoResult
    /\ pipe_match = NoResult
    /\ pipe_out = NoResult
    /\ pipe_rewrite = NoResult
    /\ pipe_pc = "loaded"

\* BuildResume.analyze_job(job_description) for a description with text: the
\* LLM is queried and its response parsed.
pipeline_analyze_job ==
    /\ pipe_pc = "loaded"
    /\ \E outcome \in PipelineOutcomes :
           /\ pipe_response' = outcome
           /\ pipe_analysis' = ParseResponse(outcome).value
    /\ pipe_pc' = "analyzed"
    /\ UNCHANGED <<pipe_heap, pipe_match, pipe_out, pipe_rewrite>>
    /\ PipelineOnly

\* BuildResume.match_resume_to_job(job_analysis) on the stored resume.
pipeline_match_resume_to_job ==
    /\ pipe_pc = "analyzed"
    /\ pipe_match' =
           MatchOutcome([skills |-> PyList(Texts(pipe_heap, pipe_heap[1].skills.addr))],
                        pipe_analysis)
    /\ pipe_pc' = "matched"
    /\ UNCHANGED <<pipe_heap, pipe_response, pipe_analysis, pipe_out, pipe_rewrite>>
    /\ PipelineOnly

\* BuildResume.customize_for_job(job_analysis) without an output path.
pipeline_customize_for_job ==
    /\ pipe_pc = "matched"
    /\ \E out \in CallOutcomes :
           LET copied == CopyDict(pipe_heap, 1)
               call == HeapRewriteResumeData(copied.h, copied.addr, pipe_analysis, "client", out)
           IN  /\ pipe_out' = out
               /\ pipe_heap' = call.h
               /\ pipe_rewrite' = call.result
    /\ pipe_pc' = "done"
    /\ UNCHANGED <<pipe_response, pipe_analysis, pipe_match>>
    /\ PipelineOnly

PipelineNext ==
    pipeline_analyze_job \/ pipeline_match_resume_to_job \/ pipeline_customize_for_job

\* A builder with an LLM client and a resume loaded, taking one job through.
InitPipeline ==
    /\ PipelineInit /\ MatchIdle /\ SegmentIdle /\ AnalyzeIdle /\ RewriteIdle /\ SingleIdle
    /\ CustomizeIdle /\ LoadIdle /\ SessionIdle

SpecPipeline == InitPipeline /\ [][PipelineNext]_vars

\* ---- claims about a mapping response ----

\* The response was a mapping none of whose fields is null.
MappingResponse ==
    /\ pipe_response.kind = "return"
    /\ pipe_response.value.type = "dict"
    /\ \A k \in DOMAIN pipe_response.value \ {"type"} : pipe_response.value[k] # None

\* The analysis with every missing field filled in: an empty string for
\* seniority_level, an empty list for the others.
Filled(job) ==
    [k \in AnalysisFields \cup {"type"} |->
        IF k \in DOMAIN job THEN job[k]
        ELSE IF k = "seniority_level" THEN PyStr(<<>>)
        ELSE PyList(<<>>)]

\* The resume as it was loaded: customize_for_job only adds objects.
LoadedPart == IF pipe_heap[1].summary.type = "ref" THEN LoadedHeap ELSE StructuredHeap

\* C19: a response that is a mapping is the analysis as it stands; with any of
\* the six fields missing, match_resume_to_job and rewrite_resume_data return
\* without an exception, and they return what they return for the same
\* analysis with each missing field present and empty.
C19_MissingFieldsBehaveAsEmpty ==
    (pipe_pc = "done" /\ MappingResponse) =>
        /\ pipe_analysis = pipe_response.value
        /\ pipe_match.kind = "return"
        /\ pipe_rewrite.kind = "return"
        /\ pipe_match =
               MatchOutcome([skills |-> PyList(Texts(LoadedPart, LoadedPart[1].skills.addr))],
                            Filled(pipe_analysis))
        /\ LET copied == CopyDict(LoadedPart, 1)
               call == HeapRewriteResumeData(copied.h, copied.addr, Filled(pipe_analysis),
                                             "client", pipe_out)
           IN  pipe_heap = call.h /\ pipe_rewrite = call.result

\* The LLM answered with a mapping that has only required_skills; the match
\* found "go" and the resume was rewritten.
C19_Witness ==
    /\ pipe_pc = "done"
    /\ MappingResponse
    /\ DOMAIN pipe_response.value = {"type", "required_skills"}
    /\ pipe_match.kind = "return"
    /\ pipe_match.value.matched_required_skills = {<<"g","o">>}
    /\ pipe_rewrite.kind = "return"

\* ---- claims about a flat experience list ----

\* The experience of the input is a list of strings, not of roles.
FlatExperience ==
    /\ rw_resume.experience # Absent
    /\ rw_resume.experience.type = "list"
    /\ Len(rw_resume.experience.items) > 0
    /\ rw_resume.experience.items[1] \notin RoleInputs

\* The LLM queries made for the i-th string, as positions of the log.
ItemQueries(i) == {n \in DOMAIN rw_log : rw_log[n].unit = <<"item", i>>}

\* C20: for an experience that is a flat list of strings, the output
\* experience is a list of the same length; with a client, each string is
\* sent once, in the bullet prompt and in the order of the list, and the i-th
\* element of the output is the text the LLM returned for the i-th string.
C20_FlatExperienceRewrittenInOrder ==
    (rw_pc = "returned" /\ FlatExperience) =>
        /\ rewritten.experience.type = "list"
        /\ Len(rewritten.experience.items) = Len(rw_resume.experience.items)
        /\ \A i \in DOMAIN rw_resume.experience.items :
               /\ llm_client = "client" => Cardinality(ItemQueries(i)) = 1
               /\ \A n \in ItemQueries(i) :
                      /\ rw_log[n].prompt = bullet_prompt(rw_resume.experience.items[i], rw_job)
                      /\ rw_log[n].outcome.kind = "return" =>
                             rewritten.experience.items[i] = RewrittenText(rw_log[n].outcome)
                      /\ \A j \in DOMAIN rw_resume.experience.items :
                             \A m \in ItemQueries(j) : i < j => n < m

\* The strings "E1" and "E2" came back as "New" and "7", in this order.
C20_Witness ==
    /\ rw_pc = "returned"
    /\ FlatExperience
    /\ llm_client = "client"
    /\ rewritten.experience = PyList(<< <<"N","e","w">>, <<"7">> >>)

\* ---- the skills a match report may name ----

\* The lowercased, trimmed forms of the skill strings the resume holds.
ResumeForms == {strip(lower(e)) : e \in SkillEntries(resume_data.skills)}

\* C24: every skill in matched_required_skills, matched_preferred_skills or
\* emphasize_skills of a report is the lowercased, trimmed form of a skill
\* string of the resume, and no skill is both in matched_required_skills and
\* in missing_required_skills.
C24_ReportedSkillsComeFromResume ==
    ReportReturned =>
        /\ match_result.matched_required_skills \subseteq ResumeForms
        /\ match_result.matched_preferred_skills \subseteq ResumeForms
        /\ match_result.emphasize_skills \subseteq ResumeForms
        /\ match_result.matched_required_skills \cap match_result.missing_required_skills = {}

\* A report with a matched and a missing required skill and a matched
\* preferred skill, for a resume that lacks one of the job's skills.
C24_Witness ==
    /\ ReportReturned
    /\ match_result.matched_required_skills # {}
    /\ match_result.missing_required_skills # {}
    /\ match_result.matched_preferred_skills # {}
    /\ match_result.emphasize_skills # {}

\* ---- the type of the analysis ----

\* C25 as stated: the analysis _analyze_single_description returns is None or
\* a mapping, whatever the LLM answered.
C25_AnalysisIsNullOrMapping ==
    single_pc = "returned" =>
        (single_result.value = None \/ single_result.value.type = "dict")

\* ---- the experience content rewrite_resume_data keeps ----

\* The number of entries of an experience value: the length of a list, one
\* for a single value that is no list.
EntryCount(experience) ==
    IF experience.type = "list" THEN Len(experience.items) ELSE 1

\* The number of bullets of a role: the length of a list, one for a single string.
BulletCount(role) ==
    IF role.bullets.type = "list" THEN Len(role.bullets.items) ELSE 1

\* C26 as stated: for every non-empty experience value (a list of roles, a
\* list of strings, or a single value that is no list) the output experience
\* has as many entries as the input, and each role has as many bullets as before.
C26_ExperienceContentKept ==
    (rw_pc = "returned" /\ TruthyValue(rw_resume.experience)) =>
        /\ rewritten.experience.type = "list"
        /\ Len(rewritten.experience.items) = EntryCount(rw_resume.experience)
        /\ StructuredExperience(rw_resume) =>
               \A n \in DOMAIN rw_resume.experience.items :
                   BulletCount(rewritten.experience.items[n])
                       = BulletCount(rw_resume.experience.items[n])

\* ---- what rewrite_resume_data leaves alone ----

\* The keys a resume dict holds.
ResumeKeys(resume) == {k \in {"summary", "experience", "skills"} : resume[k] # Absent}

\* The experience of resume is a list of role dicts.
RoleExperience(resume) ==
    /\ resume.experience # Absent
    /\ resume.experience.type = "list"
    /\ Len(resume.experience.items) > 0
    /\ resume.experience.items[1] \in RoleInputs

\* C21: from the copy on, the output has exactly the keys of the input and
\* its skills are the input's; in the returned resume every role of a list of
\* roles has the title and the company it had.
C21_OnlySummaryAndBulletsChange ==
    /\ (rw_pc # Idle /\ rewritten # NoResult) =>
           /\ ResumeKeys(rewritten) = ResumeKeys(rw_resume)
           /\ rewritten.skills = rw_resume.skills
    /\ (rw_pc = "returned" /\ RoleExperience(rw_resume)) =>
           /\ Len(rewritten.experience.items) = Len(rw_resume.experience.items)
           /\ \A n \in DOMAIN rw_resume.experience.items :
                  /\ rewritten.experience.items[n].title = rw_resume.experience.items[n].title
                  /\ rewritten.experience.items[n].company
                         = rw_resume.experience.items[n].company

\* A resume came back with a new summary and new bullets in its role.
C21_Witness ==
    /\ rw_pc = "returned"
    /\ RoleExperience(rw_resume)
    /\ rw_resume.summary = PyStr(<<"S","u","m">>)
    /\ rewritten.summary = PyStr(<<"N","e","w">>)
    /\ rw_resume.experience.items[1].bullets.type = "list"
    /\ Len(rw_resume.experience.items[1].bullets.items) = 2
    /\ rewritten.experience.items[1].bullets = PyList(<< <<"N","e","w">>, <<"7">> >>)
    /\ rewritten.experience.items[1].title = <<"D","e","v">>

(***************************************************************************)
(* The LLM queries of rewrite_resume_data and of analyze_jobs              *)
(***************************************************************************)

\* One call of rewrite_resume_data, or one call of analyze_jobs.
InitQueries == InitRewrite \/ InitAnalyze

QueriesNext == RewriteNext \/ AnalyzeNext

SpecQueries == InitQueries /\ [][QueriesNext]_vars

\* The units of a resume that rewrite_resume_data rewrites: a truthy summary,
\* each bullet of each role (a single string counts as one bullet), or each
\* string of a flat list.
SummaryUnits == IF TruthyValue(rw_resume.summary) THEN {<<"summary">>} ELSE {}

ExperienceUnits ==
    IF RoleExperience(rw_resume)
    THEN UNION {{<<"bullet", n, b>> : b \in 1..BulletCount(rw_resume.experience.items[n])} :
                   n \in DOMAIN rw_resume.experience.items}
    ELSE IF FlatExperience
    THEN {<<"item", i>> : i \in DOMAIN rw_resume.experience.items}
    ELSE {}

\* The units queried so far.
QueriedUnits == {rw_log[n].unit : n \in DOMAIN rw_log}

\* C22: during a call of rewrite_resume_data no unit is queried twice and
\* nothing but the units of the input is queried; when the call returns with
\* a client, every unit has been queried once, whether its query returned or
\* raised, and without a client none; during analyze_jobs no posting is
\* queried twice.
C22_NoRetry ==
    /\ rw_pc \notin {Idle, "call", "raised"} =>
           /\ \A n, m \in DOMAIN rw_log : rw_log[n].unit = rw_log[m].unit => n = m
           /\ QueriedUnits \subseteq SummaryUnits \cup ExperienceUnits
           /\ llm_client = "None" => rw_log = <<>>
           /\ (rw_pc = "returned" /\ llm_client = "client") =>
                  QueriedUnits = SummaryUnits \cup ExperienceUnits
    /\ analyze_pc # Idle =>
           /\ \A n, m \in DOMAIN llm_log : llm_log[n].idx = llm_log[m].idx => n = m
           /\ \A n \in DOMAIN llm_log : llm_log[n].idx \in 0..(Len(jobs) - 1)

\* A summary and two bullets were each queried once; one query raised and
\* the others returned.
C22_Witness ==
    /\ rw_pc = "returned"
    /\ llm_client = "client"
    /\ RoleExperience(rw_resume)
    /\ Len(rw_log) = 3
    /\ QueriedUnits = {<<"summary">>, <<"bullet", 1, 1>>, <<"bullet", 1, 2>>}
    /\ \E n \in DOMAIN rw_log : rw_log[n].outcome.kind = "raise"
    /\ \E n \in DOMAIN rw_log : rw_log[n].outcome.kind = "return"

(***************************************************************************)
(* BuildResume: any sequence of calls on one builder                       *)
(***************************************************************************)

\* rewrite_resume_data(resume_data, job_analysis, llm_client) on a resume as
\* load_resume builds it, every section a list of lines (its contact fields
\* are left out); out[n] is the outcome of the n-th LLM query of the call.
RewriteLoadedResume(resume, job, client, out) ==
    IF job.type # "dict" THEN Raise("ValueError")
    ELSE Return([resume EXCEPT
             !.summary =
                 IF Len(@) > 0
                 THEN PyStr(rewrite_text(summary_prompt(JoinWith(<<" ">>, @), job), client,
                                         UnitOutcome(client, out, 1)))
                 ELSE @,
             !.experience =
                 [n \in DOMAIN @ |->
                     rewrite_text(bullet_prompt(@[n], job), client,
                                  UnitOutcome(client, out, 1 + n))]])

\* build_docx(resume_data, output_path) for a dict: ValueError for an empty
\* path (line 29), IOError when the document cannot be built or saved (line
\* 147), else the file is written.
BuildDocx(output_path, disk_ok) ==
    IF ~Truthy(output_path) THEN Raise("ValueError")
    ELSE IF ~disk_ok THEN Raise("IOError")
    ELSE Return(None)

\* Truthiness of an optional argument: None, "" and {} are falsy.
TruthyArgument(value) ==
    /\ value # None
    /\ value.type = "str" => Truthy(value.s)
    /\ value.type = "dict" => Len(value.keys) > 0

\* ---- inputs ----

MaxOps == 3

\* The files a builder is pointed at: a missing one, one that is no readable
\* PDF, a PDF without pages, and a resume with a summary, an experience line
\* and a skill.
SessionFiles ==
    {[exists |-> FALSE, readable |-> FALSE, pages |-> <<>>],
     [exists |-> TRUE, readable |-> FALSE, pages |-> <<>>],
     [exists |-> TRUE, readable |-> TRUE, pages |-> <<>>],
     [exists |-> TRUE, readable |-> TRUE,
      pages |-> <<Return(<<"S","U","M","M","A","R","Y","\n","D","e","v","\n",
                           "E","X","P","E","R","I","E","N","C","E","\n","B","u","i","l","t","\n",
                           "S","K","I","L","L","S","\n","G","o">>)>>]}

\* output_path: "" and o.docx; customize_for_job also takes None.
OutputPaths == {PyStr(<<>>), PyStr(<<"o",".","d","o","c","x">>)}

\* The resume_data argument of export_resume: not given (None), {} or a dict.
ExplicitResumes ==
    {None, JsonDict(<<>>, <<>>), JsonDict(<< <<"n","a","m","e">> >>, << PyStr(<<"A","l">>) >>)}

\* What llm_client.query(prompt) does in each query of a customize_for_job call.
SessionOutcomes(resume) ==
    [1..(1 + Len(resume.experience)) -> {Raise("Exception"), Return(PyStr(<<" ","N","e","w"," ">>))}]

\* BuildResume(llm_client): no resume stored (lines 27-29).
SessionInit ==
    /\ session_resume_data = None
    /\ session_llm \in {"None", "client"}
    /\ session_call = NoResult
    /\ session_result = NoResult
    /\ session_docx = {}
    /\ session_loaded = FALSE
    /\ session_failed = FALSE
    /\ session_calls = 0

\* A load that clears the stored resume before it reads the file.
session_load_resume_from_pdf_ClearFirst ==
    /\ session_calls < MaxOps
    /\ \E path \in PdfPaths, file \in SessionFiles :
           LET outcome == LoadResume(ExtractTextFromPdf(path, file))
           IN  /\ session_call' = [op |-> "load_resume_from_pdf", pdf_path |-> path, file |-> file]
               /\ session_result' = outcome
               /\ session_resume_data' =
                      IF outcome.kind = "return" THEN outcome.value ELSE None
               /\ session_loaded' = (session_loaded \/ outcome.kind = "return")
               /\ session_failed' = (session_failed \/ outcome.kind = "raise")
    /\ session_calls' = session_calls + 1
    /\ UNCHANGED <<session_llm, session_docx>>
    /\ SessionOnly

\* load_resume_from_pdf(pdf_path) (lines 45-46): the record load_resume returns
\* is stored and returned; when load_resume raises, nothing is assigned.
session_load_resume_from_pdf ==
    /\ session_calls < MaxOps
    /\ \E path \in PdfPaths, file \in SessionFiles :
           LET outcome == LoadResume(ExtractTextFromPdf(path, file))
           IN  /\ session_call' = [op |-> "load_resume_from_pdf", pdf_path |-> path, file |-> file]
               /\ session_result' = outcome
               /\ session_resume_data' =
                      IF outcome.kind = "return" THEN outcome.value ELSE session_resume_data
               /\ session_loaded' = (session_loaded \/ outcome.kind = "return")
               /\ session_failed' = (session_failed \/ outcome.kind = "raise")
    /\ session_calls' = session_calls + 1
    /\ UNCHANGED <<session_llm, session_docx>>
    /\ SessionOnly

\* match_resume_to_job(job_analysis) (lines 88-94).
session_match_resume_to_job ==
    /\ session_calls < MaxOps
    /\ \E job \in RewriteJobInputs :
           /\ session_call' = [op |-> "match_resume_to_job", job_analysis |-> job]
           /\ session_result' =
                  IF session_resume_data = None THEN Raise("ValueError")
                  ELSE IF session_llm = "None" THEN Raise("ValueError")
                  ELSE MatchOutcome([skills |-> PyList(session_resume_data.skills)], job)
    /\ session_calls' = session_calls + 1
    /\ UNCHANGED <<session_resume_data, session_llm, session_docx, session_loaded, session_failed>>
    /\ SessionOnly

\* customize_for_job(job_analysis, output_path) (lines 114-128).
session_customize_for_job ==
    /\ session_calls < MaxOps
    /\ \E job \in RewriteJobInputs, output_path \in OutputPaths \cup {None}, disk_ok \in BOOLEAN :
           /\ session_call' = [op |-> "customize_for_job", job_analysis |-> job,
                               output_path |-> output_path]
           /\ IF session_resume_data = None
              THEN /\ session_result' = Raise("ValueError")
                   /\ UNCHANGED session_docx
              ELSE \E out \in SessionOutcomes(session_resume_data) :
                       LET customized_resume ==
                               RewriteLoadedResume(session_resume_data, job, session_llm, out)
                           saved == BuildDocx(output_path.s, disk_ok)
                       IN  IF customized_resume.kind = "raise"
                           THEN /\ session_result' = customized_resume
                                /\ UNCHANGED session_docx
                           ELSE IF ~TruthyArgument(output_path)
                           THEN /\ session_result' = customized_resume
                                /\ UNCHANGED session_docx
                           ELSE IF saved.kind = "raise"
                           THEN /\ session_result' = saved
                                /\ UNCHANGED session_docx
                           ELSE /\ session_result' = customized_resume
                                /\ session_docx' = session_docx \cup {output_path.s}
    /\ session_calls' = session_calls + 1
    /\ UNCHANGED <<session_resume_data, session_llm, session_loaded, session_failed>>
    /\ SessionOnly

\* export_resume(output_path, resume_data) (lines 141-146).
session_export_resume ==
    /\ session_calls < MaxOps
    /\ \E output_path \in OutputPaths, explicit \in ExplicitResumes, disk_ok \in BOOLEAN :
           LET data_to_export == IF TruthyArgument(explicit) THEN explicit
                                 ELSE session_resume_data
               saved == BuildDocx(output_path.s, disk_ok)
           IN  /\ session_call' = [op |-> "export_resume", output_path |-> output_path,
                                   resume_data |-> explicit]
               /\ IF data_to_export = None
                  THEN /\ session_result' = Raise("ValueError")
                       /\ UNCHANGED session_docx
                  ELSE /\ session_result' = saved
                       /\ session_docx' = IF saved.kind = "raise" THEN session_docx
                                          ELSE session_docx \cup {output_path.s}
    /\ session_calls' = session_calls + 1
    /\ UNCHANGED <<session_resume_data, session_llm, session_loaded, session_failed>>
    /\ SessionOnly

\* get_resume_data() (line 155).
session_get_resume_data ==
    /\ session_calls < MaxOps
    /\ session_call' = [op |-> "get_resume_data"]
    /\ session_result' = Return(session_resume_data)
    /\ session_calls' = session_calls + 1
    /\ UNCHANGED <<session_resume_data, session_llm, session_docx, session_loaded, session_failed>>
    /\ SessionOnly

SessionNext ==
    \/ session_load_resume_from_pdf \/ session_match_resume_to_job
    \/ session_customize_for_job \/ session_export_resume \/ session_get_resume_data

\* A new builder, with or without an LLM client, and any calls on it.
InitSession ==
    /\ SessionInit /\ MatchIdle /\ SegmentIdle /\ AnalyzeIdle /\ RewriteIdle /\ SingleIdle
    /\ CustomizeIdle /\ LoadIdle /\ PipelineIdle

SpecSession == InitSession /\ [][SessionNext]_vars

\* ---- claims about the builder before a resume is loaded ----

\* A call that works on the stored resume: match_resume_to_job,
\* customize_for_job, and export_resume without a resume_data argument.
UsesStoredResume(call) ==
    \/ call.op \in {"match_resume_to_job", "customize_for_job"}
    \/ call.op = "export_resume" /\ call.resume_data = None

====
